---- MODULE Spec2Model ----
(***************************************************************************)
(* EmotionalSage: the recommendation engine (recommendation_engine.py)     *)
(* with its two content providers (movie_recommender.py,                   *)
(* youtube_recommender.py), the Spotify token handling of the playlist     *)
(* manager (playlist_manager.py), the emotion analyzer                     *)
(* (emotion_analyzer.py) and the users and emotion_history tables of the   *)
(* database manager (database.py).                                         *)
(*                                                                         *)
(* Lists are sequences, dicts are records or functions, None is the model  *)
(* value None.  An HTTP exchange is an input of the action that makes it:  *)
(* the response is drawn from a small set of responses.                    *)
(***************************************************************************)
EXTENDS Integers, Sequences, FiniteSets, TLC

VARIABLES
    movie_api_key,        \* MovieRecommender.api_key is set (TMDB_API_KEY)
    youtube_api_key,      \* YouTubeRecommender.api_key is set (YOUTUBE_API_KEY)
    emotion_result,       \* argument of the last get_recommendations call
    provider_behaviour,   \* what the providers answer during that call
    provider_calls,       \* the provider calls that call made, in order
    recommendations,      \* what that call returned
    engine_raised,        \* an exception left that call
    spotify_credentials,  \* SPOTIFY_CLIENT_ID and SPOTIFY_CLIENT_SECRET are set
    spotify_access_token, \* PlaylistManager.spotify_access_token
    token_requests,       \* token requests sent to accounts.spotify.com so far
    valid_tokens,         \* the tokens the Spotify server still accepts
    last_search,          \* what the last search_spotify_tracks call did
    analyzed_text,        \* argument of the last analyze_emotion call
    sentiment_scan,       \* what VADER and TextBlob answered during that call
    lexical_scan,         \* the keyword_emotions dict built during that call
    analysis,             \* how that call ended
    earlier,              \* an earlier analyze_emotion call, kept to compare
    calls_between,        \* calls made since, on other texts
    users,                \* committed rows of the users table
    users_id_seq,         \* last value of the sequence of users.id
    emotion_history,      \* committed rows of the emotion_history table
    emotion_history_id_seq, \* last value of the sequence of emotion_history.id
    db_call               \* per caller, the DatabaseManager call it is in

engine_vars == <<movie_api_key, youtube_api_key, emotion_result,
                 provider_behaviour, provider_calls, recommendations,
                 engine_raised>>

spotify_vars == <<spotify_credentials, spotify_access_token, token_requests,
                  valid_tokens, last_search>>

analyzer_vars == <<analyzed_text, sentiment_scan, lexical_scan, analysis,
                   earlier, calls_between>>

db_vars == <<users, users_id_seq, emotion_history, emotion_history_id_seq,
             db_call>>

vars == <<engine_vars, spotify_vars, analyzer_vars, db_vars>>

-----------------------------------------------------------------------------
(* Values *)

None == [is_none |-> TRUE]

\* cur.fetchone() gave no row, or a function returned None, where the other
\* values are ids (ids start at 1)
NoRow == 0

\* the threads (Streamlit sessions, page reruns) that call the manager
Callers == {"c1", "c2"}

\* a caller between two calls
IdleCall ==
    [op |-> "none", pc |-> "idle", session_id |-> "none", fresh |-> FALSE,
     result |-> NoRow, inserted |-> NoRow, user_id |-> NoRow,
     returned |-> NoRow, failed |-> FALSE, conflict |-> FALSE]

\* an HTTP exchange: the request fails (requests.get or raise_for_status
\* raises a RequestException), or the response carries a list of items
HttpError == [error |-> TRUE, items |-> <<>>]

HttpOk(items) == [error |-> FALSE, items |-> items]

\* vote_average of an upstream movie that is null
NullRating == -1

\* largest number of distinct items in one upstream response
MaxItems == 9

\* the emotions the analyzer can name, in the order of emotion_keywords
Emotions ==
    <<"joy", "sadness", "anger", "fear", "surprise", "disgust", "love",
      "anticipation", "calm", "stress">>

EmotionSet == {Emotions[i] : i \in 1..Len(Emotions)}

-----------------------------------------------------------------------------
(* Sequence helpers *)

Take(s, n) == IF n >= Len(s) THEN s ELSE IF n <= 0 THEN <<>> ELSE SubSeq(s, 1, n)

\* upstream movies with ids from..to, all with the given vote_average (tenths)
MovieItems(from, to, rating) ==
    [i \in 1..(to - from + 1) |-> [id |-> from + i - 1, rating |-> rating]]

\* upstream videos with ids from..to
VideoItems(from, to) == [i \in 1..(to - from + 1) |-> [id |-> from + i - 1]]

\* every item of s twice in a row
Doubled(s) == [i \in 1..(2 * Len(s)) |-> s[(i + 1) \div 2]]

-----------------------------------------------------------------------------
(* movie_recommender.py *)

emotion_genre_map ==
    [joy |-> <<35, 10402, 10751, 16>>, sadness |-> <<18, 10749>>,
     anger |-> <<28, 53, 80>>, fear |-> <<27, 53, 9648>>,
     surprise |-> <<878, 14, 12>>, disgust |-> <<27, 53>>,
     love |-> <<10749, 18, 35>>, anticipation |-> <<12, 878, 28>>,
     calm |-> <<99, 18, 10402>>, stress |-> <<35, 10751, 16>>]

\* round(vote_average, 1) raises on a null vote_average: the item is dropped
_format_movie_data(movie_data) ==
    IF movie_data.rating = NullRating THEN None ELSE movie_data

\* [movie for movie_data in results if (movie := format(movie_data))]
RECURSIVE FormatMovies(_)
FormatMovies(results) ==
    IF results = <<>> THEN <<>>
    ELSE LET movie == _format_movie_data(Head(results))
         IN (IF movie # None THEN <<movie>> ELSE <<>>)
                \o FormatMovies(Tail(results))

_get_movies_by_genre(response, limit) ==
    IF response.error THEN <<>> ELSE FormatMovies(Take(response.items, limit))

\* the loop "Remove duplicates and limit results" of both providers: the
\* length is tested only after an append
RECURSIVE UniqueUpTo(_, _, _, _)
UniqueUpTo(items, seen_ids, unique, limit) ==
    IF items = <<>> THEN unique
    ELSE LET item == Head(items)
         IN IF item.id \notin seen_ids
            THEN LET u == Append(unique, item)
                 IN IF Len(u) >= limit THEN u
                    ELSE UniqueUpTo(Tail(items), seen_ids \cup {item.id}, u, limit)
            ELSE UniqueUpTo(Tail(items), seen_ids, unique, limit)

\* for genre_id in genre_ids[:2]: one request each, until limit items are held
RECURSIVE MovieGenreLoop(_, _, _, _, _)
MovieGenreLoop(upstream, k, n, movies, limit) ==
    IF k > n THEN movies
    ELSE LET more == movies \o _get_movies_by_genre(upstream[k], 3)
         IN IF Len(more) >= limit THEN more
            ELSE MovieGenreLoop(upstream, k + 1, n, more, limit)

\* the hard-coded lists used without an API key; vote averages in tenths
curated_movies ==
    [joy |-> <<[id |-> 1, rating |-> 81], [id |-> 2, rating |-> 80],
               [id |-> 3, rating |-> 80]>>,
     sadness |-> <<[id |-> 4, rating |-> 81], [id |-> 5, rating |-> 80],
                   [id |-> 6, rating |-> 78]>>,
     anger |-> <<[id |-> 7, rating |-> 81], [id |-> 8, rating |-> 74],
                 [id |-> 9, rating |-> 76]>>,
     fear |-> <<[id |-> 10, rating |-> 75], [id |-> 11, rating |-> 77],
                [id |-> 12, rating |-> 73]>>,
     love |-> <<[id |-> 13, rating |-> 80], [id |-> 14, rating |-> 81],
                [id |-> 15, rating |-> 83]>>,
     calm |-> <<[id |-> 16, rating |-> 82], [id |-> 17, rating |-> 77],
                [id |-> 18, rating |-> 68]>>,
     stress |-> <<[id |-> 19, rating |-> 93], [id |-> 20, rating |-> 79],
                  [id |-> 21, rating |-> 81]>>]

\* mutant of _get_curated_recommendations: no list for an emotion that has
\* none of its own
CuratedWithoutDefault(emotion, limit) ==
    Take(IF emotion \in DOMAIN curated_movies THEN curated_movies[emotion]
         ELSE <<>>, limit)

_get_curated_recommendations(emotion, limit) ==
    Take(IF emotion \in DOMAIN curated_movies THEN curated_movies[emotion]
         ELSE curated_movies["joy"], limit)

\* MovieRecommender.get_recommendations; upstream[k] answers the k-th request
Movie_get_recommendations(api_key, emotion, limit, upstream) ==
    IF ~api_key THEN _get_curated_recommendations(emotion, limit)
    ELSE LET genre_ids == IF emotion \in DOMAIN emotion_genre_map
                          THEN emotion_genre_map[emotion] ELSE <<35>>
             movies == MovieGenreLoop(upstream, 1, Len(Take(genre_ids, 2)),
                                      <<>>, limit)
         IN UniqueUpTo(movies, {}, <<>>, limit)

\* movies of results[:limit] with a rating of at least 6.0, in order
RECURSIVE RatedMovies(_)
RatedMovies(results) ==
    IF results = <<>> THEN <<>>
    ELSE LET movie == _format_movie_data(Head(results))
         IN (IF movie # None /\ movie.rating >= 60 THEN <<movie>> ELSE <<>>)
                \o RatedMovies(Tail(results))

search_movies_by_keyword(api_key, keyword, limit, response) ==
    IF ~api_key \/ response.error THEN <<>>
    ELSE RatedMovies(Take(response.items, limit))

-----------------------------------------------------------------------------
(* youtube_recommender.py *)

emotion_queries ==
    [joy |-> <<"feel good music", "happy songs", "uplifting videos",
               "comedy sketches", "funny moments">>,
     sadness |-> <<"sad songs", "emotional music", "comfort videos",
                   "healing music", "therapeutic content">>,
     anger |-> <<"rock music", "intense workouts", "motivational speeches",
                 "rage room", "metal music">>,
     fear |-> <<"relaxing music", "meditation", "calming sounds",
                "anxiety relief", "peaceful nature">>,
     surprise |-> <<"amazing facts", "mind blowing", "incredible moments",
                    "wow videos", "surprising discoveries">>,
     disgust |-> <<"satisfying videos", "cleaning videos", "organizing",
                   "fresh content", "renewal videos">>,
     love |-> <<"romantic songs", "love songs", "relationship advice",
                "heartwarming stories", "couples content">>,
     anticipation |-> <<"upcoming releases", "exciting news", "adventure videos",
                        "travel vlogs", "new discoveries">>,
     calm |-> <<"meditation music", "nature sounds", "peaceful videos",
                "relaxing content", "zen music">>,
     stress |-> <<"stress relief", "relaxation techniques", "comedy videos",
                  "funny animals", "meditation">>]

\* every item of the response is kept: maxResults is only a request parameter
_search_videos(response) == IF response.error THEN <<>> ELSE response.items

\* for query in queries[:3]: one request each, until limit items are held
RECURSIVE VideoQueryLoop(_, _, _, _, _)
VideoQueryLoop(upstream, k, n, videos, limit) ==
    IF k > n THEN videos
    ELSE LET more == videos \o _search_videos(upstream[k])
         IN IF Len(more) >= limit THEN more
            ELSE VideoQueryLoop(upstream, k + 1, n, more, limit)

\* YouTubeRecommender.get_recommendations
YouTube_get_recommendations(api_key, emotion, limit, upstream) ==
    IF ~api_key THEN <<>>
    ELSE LET queries == IF emotion \in DOMAIN emotion_queries
                        THEN emotion_queries[emotion] ELSE <<"relaxing music">>
             videos == VideoQueryLoop(upstream, 1, Len(Take(queries, 3)),
                                      <<>>, limit)
         IN UniqueUpTo(videos, {}, <<>>, limit)

\* limit goes into the request (maxResults); the response is returned whole
get_trending_videos(api_key, limit, response) ==
    IF ~api_key \/ response.error THEN <<>> ELSE response.items

-----------------------------------------------------------------------------
(* recommendation_engine.py *)

\* What a provider call gives the engine: a list, or an exception that leaves
\* the provider (its own handler prints, and the print can fail).
Returned(items) == [raised |-> FALSE, items |-> items]

Raised == [raised |-> TRUE, items |-> <<>>]

\* The environment's answer to one provider call: raises says the call
\* leaves with an exception, upstream holds the HTTP responses otherwise.
Answer(upstream) == [raises |-> FALSE, upstream |-> upstream]

Raises == [raises |-> TRUE, upstream |-> <<>>]

\* self.movie_recommender.get_recommendations(emotion, limit=limit)
MovieFetch(api_key, emotion, limit, answer) ==
    IF answer.raises THEN Raised
    ELSE Returned(Movie_get_recommendations(api_key, emotion, limit,
                                            answer.upstream))

\* self.youtube_recommender.get_recommendations(emotion, limit=limit)
VideoFetch(api_key, emotion, limit, answer) ==
    IF answer.raises THEN Raised
    ELSE Returned(YouTube_get_recommendations(api_key, emotion, limit,
                                              answer.upstream))

Called(op, arg, limit, got) ==
    [op |-> op, arg |-> arg, limit |-> limit, got |-> got]

\* mutant of MovieSecondary: without the break after a non-empty result
RECURSIVE MovieSecondaryNoBreak(_, _, _, _)
MovieSecondaryNoBreak(api_key, secondary_emotions, answers, i) ==
    IF i > Len(secondary_emotions) THEN [items |-> <<>>, calls |-> <<>>]
    ELSE LET got == MovieFetch(api_key, secondary_emotions[i], 3, answers[i])
             made == Called("movie", secondary_emotions[i], 3, got)
         IN IF got.raised
            THEN [items |-> got.items, calls |-> <<made>>]
            ELSE LET rest == MovieSecondaryNoBreak(api_key, secondary_emotions,
                                                   answers, i + 1)
                 IN [items |-> got.items \o rest.items,
                     calls |-> <<made>> \o rest.calls]

\* "for emotion in secondary_emotions" of the movie block, from index i on:
\* the list found and the calls made.  An exception leaves the try block.
RECURSIVE MovieSecondary(_, _, _, _)
MovieSecondary(api_key, secondary_emotions, answers, i) ==
    IF i > Len(secondary_emotions) THEN [items |-> <<>>, calls |-> <<>>]
    ELSE LET got == MovieFetch(api_key, secondary_emotions[i], 3, answers[i])
             made == Called("movie", secondary_emotions[i], 3, got)
         IN IF got.raised \/ got.items # <<>>
            THEN [items |-> got.items, calls |-> <<made>>]
            ELSE LET rest == MovieSecondary(api_key, secondary_emotions,
                                            answers, i + 1)
                 IN [items |-> rest.items, calls |-> <<made>> \o rest.calls]

\* the block "Get movie recommendations" (try ... except Exception)
MovieBlock(api_key, er, behaviour) ==
    LET got == MovieFetch(api_key, er.primary_emotion, 6, behaviour.movie_primary)
        made == Called("movie", er.primary_emotion, 6, got)
    IN IF got.raised \/ got.items # <<>>
       THEN [items |-> got.items, calls |-> <<made>>]
       ELSE LET sec == MovieSecondary(api_key, er.secondary_emotions,
                                      behaviour.movie_secondary, 1)
            IN [items |-> sec.items, calls |-> <<made>> \o sec.calls]

RECURSIVE VideoSecondary(_, _, _, _)
VideoSecondary(api_key, secondary_emotions, answers, i) ==
    IF i > Len(secondary_emotions) THEN [items |-> <<>>, calls |-> <<>>]
    ELSE LET got == VideoFetch(api_key, secondary_emotions[i], 4, answers[i])
             made == Called("video", secondary_emotions[i], 4, got)
         IN IF got.raised \/ got.items # <<>>
            THEN [items |-> got.items, calls |-> <<made>>]
            ELSE LET rest == VideoSecondary(api_key, secondary_emotions,
                                            answers, i + 1)
                 IN [items |-> rest.items, calls |-> <<made>> \o rest.calls]

\* the block "Get YouTube recommendations" (try ... except Exception)
VideoBlock(api_key, er, behaviour) ==
    LET got == VideoFetch(api_key, er.primary_emotion, 8, behaviour.video_primary)
        made == Called("video", er.primary_emotion, 8, got)
    IN IF got.raised \/ got.items # <<>>
       THEN [items |-> got.items, calls |-> <<made>>]
       ELSE LET sec == VideoSecondary(api_key, er.secondary_emotions,
                                      behaviour.video_secondary, 1)
            IN [items |-> sec.items, calls |-> <<made>> \o sec.calls]

\* mutant of _generate_reasoning: ">=" in the place of ">" at both thresholds
ReasoningInclusive(primary_emotion, confidence, secondary_emotions) ==
    <<[template |-> IF primary_emotion \in EmotionSet
                    THEN primary_emotion ELSE "default"],
      [confidence_note |-> IF confidence >= 2400 THEN "highly confident"
                           ELSE IF confidence >= 1800
                                THEN "moderately confident"
                                ELSE "best guess"]>>
    \o (IF secondary_emotions # <<>>
        THEN <<[hints_of |-> secondary_emotions]>> ELSE <<>>)

\* The explanation, as the parts it is concatenated from; confidence is in
\* units of 1/3000 (0.8 is 2400, 0.6 is 1800).
_generate_reasoning(primary_emotion, confidence, secondary_emotions) ==
    LET base_reasoning ==
            [template |-> IF primary_emotion \in EmotionSet
                          THEN primary_emotion ELSE "default"]
        confidence_note ==
            [confidence_note |-> IF confidence > 2400 THEN "highly confident"
                                 ELSE IF confidence > 1800
                                      THEN "moderately confident"
                                      ELSE "best guess"]
        secondary_note ==
            IF secondary_emotions # <<>>
            THEN <<[hints_of |-> secondary_emotions]>> ELSE <<>>
    IN <<base_reasoning, confidence_note>> \o secondary_note

fallback_keywords ==
    [joy |-> "comedy", sadness |-> "drama", anger |-> "action",
     fear |-> "meditation", surprise |-> "amazing", disgust |-> "satisfying",
     love |-> "romance", anticipation |-> "adventure", calm |-> "relaxing",
     stress |-> "funny"]

\* mutant of _get_fallback_recommendations: the explanation of the emotion
\* in the place of the fallback explanation
FallbackKeepsReasoning(movie_key, video_key, emotion, behaviour) ==
    LET keyword == IF emotion \in DOMAIN fallback_keywords
                   THEN fallback_keywords[emotion] ELSE "entertainment"
        movies == IF behaviour.movie_keyword.raises THEN Raised
                  ELSE Returned(search_movies_by_keyword(movie_key, keyword, 3,
                                    behaviour.movie_keyword.upstream[1]))
        youtube_videos ==
            IF behaviour.video_trending.raises THEN Raised
            ELSE Returned(get_trending_videos(video_key, 5,
                              behaviour.video_trending.upstream[1]))
    IN [bundle |-> [movies |-> movies.items,
                    youtube_videos |-> youtube_videos.items,
                    reasoning |-> _generate_reasoning(emotion, 1800, <<>>)],
        calls |-> <<Called("keyword", keyword, 3, movies),
                    Called("trending", "0", 5, youtube_videos)>>]

\* _get_fallback_recommendations: both calls sit in a bare try/except
_get_fallback_recommendations(movie_key, video_key, emotion, behaviour) ==
    LET keyword == IF emotion \in DOMAIN fallback_keywords
                   THEN fallback_keywords[emotion] ELSE "entertainment"
        movies == IF behaviour.movie_keyword.raises THEN Raised
                  ELSE Returned(search_movies_by_keyword(movie_key, keyword, 3,
                                    behaviour.movie_keyword.upstream[1]))
        youtube_videos ==
            IF behaviour.video_trending.raises THEN Raised
            ELSE Returned(get_trending_videos(video_key, 5,
                              behaviour.video_trending.upstream[1]))
    IN [bundle |-> [movies |-> movies.items,
                    youtube_videos |-> youtube_videos.items,
                    reasoning |-> <<[fallback_for |-> emotion]>>],
        calls |-> <<Called("keyword", keyword, 3, movies),
                    Called("trending", "0", 5, youtube_videos)>>]

\* mutant of NeedsFallback: "or" in the place of "and"
NeedsFallbackEither(movie_key, video_key, er, behaviour) ==
    \/ MovieBlock(movie_key, er, behaviour).items = <<>>
    \/ VideoBlock(video_key, er, behaviour).items = <<>>

\* the test of line 65: nothing found by the two blocks
NeedsFallback(movie_key, video_key, er, behaviour) ==
    /\ MovieBlock(movie_key, er, behaviour).items = <<>>
    /\ VideoBlock(video_key, er, behaviour).items = <<>>

\* mutant of ReturnValue: "and" in the place of "or"
ReturnValueBoth(bundle) ==
    IF bundle.movies # <<>> /\ bundle.youtube_videos # <<>> THEN bundle ELSE None

\* the return statement of lines 70-72
ReturnValue(bundle) ==
    IF bundle.movies # <<>> \/ bundle.youtube_videos # <<>> THEN bundle ELSE None

\* mutant of Engine_get_recommendations: the movie block has no handler of its
\* own, so that an exception of the movie provider ends the call in the outer
\* handler (return None) before the video provider is asked
Engine_without_movie_handler(movie_key, video_key, er, behaviour) ==
    LET m == MovieBlock(movie_key, er, behaviour)
        v == VideoBlock(video_key, er, behaviour)
        first == [movies |-> m.items, youtube_videos |-> v.items,
                  reasoning |-> _generate_reasoning(er.primary_emotion,
                                    er.confidence, er.secondary_emotions)]
        fb == _get_fallback_recommendations(movie_key, video_key,
                                            er.primary_emotion, behaviour)
        fallback == first.movies = <<>> /\ first.youtube_videos = <<>>
    IN IF m.calls[Len(m.calls)].got.raised
       THEN [returned |-> None, calls |-> m.calls, raised |-> FALSE]
       ELSE [returned |-> ReturnValue(IF fallback THEN fb.bundle ELSE first),
             calls |-> m.calls \o v.calls
                          \o (IF fallback THEN fb.calls ELSE <<>>),
             raised |-> FALSE]

\* mutant of Engine_get_recommendations: without the except clauses; the
\* first provider call that raises ends the call with that exception
Engine_without_handlers(movie_key, video_key, er, behaviour) ==
    LET m == MovieBlock(movie_key, er, behaviour)
        v == VideoBlock(video_key, er, behaviour)
        first == [movies |-> m.items, youtube_videos |-> v.items,
                  reasoning |-> _generate_reasoning(er.primary_emotion,
                                    er.confidence, er.secondary_emotions)]
        fb == _get_fallback_recommendations(movie_key, video_key,
                                            er.primary_emotion, behaviour)
        fallback == first.movies = <<>> /\ first.youtube_videos = <<>>
        calls == m.calls \o v.calls \o (IF fallback THEN fb.calls ELSE <<>>)
        stop == IF \E i \in DOMAIN calls : calls[i].got.raised
                THEN CHOOSE i \in DOMAIN calls :
                        /\ calls[i].got.raised
                        /\ \A j \in 1..(i - 1) : ~calls[j].got.raised
                ELSE 0
    IN IF stop > 0
       THEN [returned |-> None, calls |-> SubSeq(calls, 1, stop),
             raised |-> TRUE]
       ELSE [returned |-> ReturnValue(IF fallback THEN fb.bundle ELSE first),
             calls |-> calls, raised |-> FALSE]

\* RecommendationEngine.get_recommendations: what it returns, the provider
\* calls it makes, in order, and whether an exception leaves it.  Every
\* provider call sits in a try block whose handler ends the exception (lines
\* 43, 61, 150 and 158), inside the try block of the whole method (line 74).
Engine_get_recommendations(movie_key, video_key, er, behaviour) ==
    LET m == MovieBlock(movie_key, er, behaviour)
        v == VideoBlock(video_key, er, behaviour)
        first == [movies |-> m.items, youtube_videos |-> v.items,
                  reasoning |-> _generate_reasoning(er.primary_emotion,
                                    er.confidence, er.secondary_emotions)]
        fb == _get_fallback_recommendations(movie_key, video_key,
                                            er.primary_emotion, behaviour)
        fallback == NeedsFallback(movie_key, video_key, er, behaviour)
    IN [returned |-> ReturnValue(IF fallback THEN fb.bundle ELSE first),
        calls |-> m.calls \o v.calls \o (IF fallback THEN fb.calls ELSE <<>>),
        raised |-> FALSE]

-----------------------------------------------------------------------------
(* The engine's environment: the analysis it is given and what the         *)
(* providers answer.                                                       *)

\* secondary_emotions holds at most two labels (emotion_analyzer.py)
MaxSecondary == 2

EmotionResults ==
    { [primary_emotion |-> p, confidence |-> c, secondary_emotions |-> s] :
        p \in {"joy", "surprise"},
        c \in {1800, 2400, 2700},
        s \in { t \in {<<>>, <<"sadness">>, <<"anticipation", "calm">>} :
                  Len(t) <= MaxSecondary } }

MovieUpstreams ==
    { <<HttpError, HttpError>>,
      <<HttpOk(<<>>), HttpOk(<<>>)>>,
      <<HttpError, HttpOk(MovieItems(1, 2, 70))>>,
      <<HttpOk(<<[id |-> 1, rating |-> NullRating], [id |-> 2, rating |-> 70]>>),
        HttpError>>,
      <<HttpOk(Doubled(MovieItems(1, MaxItems, 70))),
        HttpOk(Doubled(MovieItems(1, MaxItems, 70)))>>,
      <<HttpOk(MovieItems(1, MaxItems, 70)),
        HttpOk(MovieItems(MaxItems + 1, 2 * MaxItems, 70))>> }

MovieSecondaryUpstreams ==
    { <<HttpOk(<<>>), HttpError>>,
      <<HttpOk(Doubled(MovieItems(1, MaxItems, 70))),
        HttpOk(MovieItems(2, MaxItems, 70))>> }

KeywordUpstreams ==
    { <<HttpError>>,
      <<HttpOk(MovieItems(1, MaxItems, 50))>>,
      <<HttpOk(MovieItems(1, MaxItems, 70))>>,
      <<HttpOk(Doubled(MovieItems(1, MaxItems, 70)))>> }

VideoUpstreams ==
    { <<HttpError, HttpError, HttpError>>,
      <<HttpOk(<<>>), HttpOk(<<>>), HttpOk(<<>>)>>,
      <<HttpError, HttpOk(VideoItems(1, 2)), HttpError>>,
      <<HttpOk(VideoItems(1, 3)), HttpOk(VideoItems(3, 5)),
        HttpOk(VideoItems(5, 7))>>,
      <<HttpOk(Doubled(VideoItems(1, MaxItems))), HttpError, HttpError>> }

VideoSecondaryUpstreams ==
    { <<HttpError, HttpOk(<<>>), HttpError>>,
      <<HttpOk(VideoItems(1, 3)), HttpOk(Doubled(VideoItems(3, MaxItems))),
        HttpError>> }

TrendingUpstreams ==
    { <<HttpError>>,
      <<HttpOk(<<>>)>>,
      <<HttpOk(VideoItems(1, MaxItems))>>,
      <<HttpOk(Doubled(VideoItems(1, 2)))>> }

\* a provider without an API key sends no request;
\* YouTubeRecommender.get_recommendations prints before it returns the empty
\* list (line 31), and the print can fail
Answers(api_key, upstreams) ==
    {Raises} \cup (IF api_key THEN {Answer(u) : u \in upstreams}
                   ELSE {Answer(<<>>)})

\* MovieRecommender (lines 39-41 and 144-145) and get_trending_videos (lines
\* 145-146) return at once without a key: no request, no print, and nothing
\* that raises for an emotion that is a string
QuietAnswers(api_key, upstreams) ==
    IF api_key THEN Answers(api_key, upstreams) ELSE {Answer(<<>>)}

\* the answer slot of a fallback call that is not made
NotAsked == Answer(<<>>)

\* A fresh RecommendationEngine; the playlist manager is not used
EngineInit ==
    /\ movie_api_key \in BOOLEAN
    /\ youtube_api_key \in BOOLEAN
    /\ emotion_result = None
    /\ provider_behaviour = None
    /\ provider_calls = <<>>
    /\ recommendations = None
    /\ engine_raised = FALSE
    /\ spotify_credentials = FALSE
    /\ spotify_access_token = None
    /\ token_requests = 0
    /\ valid_tokens = {}
    /\ last_search = None
    /\ users = {}
    /\ users_id_seq = 0
    /\ emotion_history = {}
    /\ emotion_history_id_seq = 0
    /\ db_call = [c \in Callers |-> IdleCall]
    /\ analyzed_text = <<>>
    /\ sentiment_scan = None
    /\ lexical_scan = None
    /\ analysis = None
    /\ earlier = None
    /\ calls_between = 0

\* One call of RecommendationEngine.get_recommendations(emotion_result), made
\* by the page when no result is on display
GetRecommendations ==
    /\ emotion_result = None
    /\ \E er \in EmotionResults :
        \E mp \in QuietAnswers(movie_api_key, MovieUpstreams),
           vp \in Answers(youtube_api_key, VideoUpstreams) :
        \E ms \in [1..Len(er.secondary_emotions) ->
                      QuietAnswers(movie_api_key, MovieSecondaryUpstreams)],
           vs \in [1..Len(er.secondary_emotions) ->
                      Answers(youtube_api_key, VideoSecondaryUpstreams)] :
            LET tiers == [movie_primary |-> mp, movie_secondary |-> ms,
                          video_primary |-> vp, video_secondary |-> vs,
                          movie_keyword |-> NotAsked, video_trending |-> NotAsked]
                fallback == NeedsFallback(movie_api_key, youtube_api_key, er, tiers)
            IN \E mk \in IF fallback
                         THEN QuietAnswers(movie_api_key, KeywordUpstreams)
                         ELSE {NotAsked},
                  vt \in IF fallback
                         THEN QuietAnswers(youtube_api_key, TrendingUpstreams)
                         ELSE {NotAsked} :
                LET behaviour == [tiers EXCEPT !.movie_keyword = mk,
                                               !.video_trending = vt]
                    run == Engine_get_recommendations(movie_api_key, youtube_api_key,
                                                      er, behaviour)
                IN /\ emotion_result' = er
                   /\ provider_behaviour' = behaviour
                   /\ provider_calls' = run.calls
                   /\ recommendations' = run.returned
                   /\ engine_raised' = run.raised
                   /\ UNCHANGED <<movie_api_key, youtube_api_key>>
                   /\ UNCHANGED <<spotify_vars, analyzer_vars, db_vars>>

\* The page is done with the result (app.py renders it; the next submission
\* starts from scratch: the engine keeps nothing between calls).
NextSubmission ==
    /\ emotion_result # None
    /\ emotion_result' = None
    /\ provider_behaviour' = None
    /\ provider_calls' = <<>>
    /\ recommendations' = None
    /\ engine_raised' = FALSE
    /\ UNCHANGED <<movie_api_key, youtube_api_key>>
    /\ UNCHANGED <<spotify_vars, analyzer_vars, db_vars>>

EngineNext == GetRecommendations \/ NextSubmission

SpecEngine == EngineInit /\ [][EngineNext]_vars

-----------------------------------------------------------------------------
(* Properties of get_recommendations *)

\* a call of get_recommendations has returned
Done == emotion_result # None

CallsOf(op) == SelectSeq(provider_calls, LAMBDA c : c.op = op)

\* what the primary fetch of a content type gives under the behaviour
PrimaryGot(op) ==
    IF op = "movie"
    THEN MovieFetch(movie_api_key, emotion_result.primary_emotion, 6,
                    provider_behaviour.movie_primary)
    ELSE VideoFetch(youtube_api_key, emotion_result.primary_emotion, 8,
                    provider_behaviour.video_primary)

\* what the fetch for the i-th secondary emotion gives, or would give
SecondaryGot(op, i) ==
    IF op = "movie"
    THEN MovieFetch(movie_api_key, emotion_result.secondary_emotions[i], 3,
                    provider_behaviour.movie_secondary[i])
    ELSE VideoFetch(youtube_api_key, emotion_result.secondary_emotions[i], 4,
                    provider_behaviour.video_secondary[i])

BundleList(op) ==
    IF op = "movie" THEN recommendations.movies
    ELSE recommendations.youtube_videos

NoDuplicateIds(items) ==
    \A i, j \in DOMAIN items : items[i].id = items[j].id => i = j

\* C1: a fetch that raises counts as an empty result and the cascade goes on:
\* after a primary fetch that raises the first secondary emotion is fetched,
\* and after a secondary fetch that raises the next secondary emotion is.
\* (The i-th call of a content type is the primary fetch for i = 1 and the
\* fetch for secondary emotion i - 1 otherwise.)
C1_CascadeProceedsAfterRaise ==
    Done =>
        \A op \in {"movie", "video"} :
            LET cs == CallsOf(op)
                sec == emotion_result.secondary_emotions
            IN \A i \in DOMAIN cs :
                  (cs[i].got.raised /\ i <= Len(sec)) =>
                      /\ Len(cs) > i
                      /\ cs[i + 1].arg = sec[i]

\* C2: fallback monotonicity: when the primary fetch of a content type
\* returns an empty list and the fetch for some secondary emotion would
\* return a non-empty one, a returned bundle's list of that type is not empty.
C2_FallbackMonotonicity ==
    Done =>
        \A op \in {"movie", "video"} :
            ( /\ ~PrimaryGot(op).raised
              /\ PrimaryGot(op).items = <<>>
              /\ \E i \in DOMAIN emotion_result.secondary_emotions :
                    /\ ~SecondaryGot(op, i).raised
                    /\ SecondaryGot(op, i).items # <<>> )
            => (recommendations # None => BundleList(op) # <<>>)

AllMovieCallsRaise ==
    /\ provider_behaviour.movie_primary.raises
    /\ \A i \in DOMAIN provider_behaviour.movie_secondary :
          provider_behaviour.movie_secondary[i].raises

AllVideoCallsRaise ==
    /\ provider_behaviour.video_primary.raises
    /\ \A i \in DOMAIN provider_behaviour.video_secondary :
          provider_behaviour.video_secondary[i].raises

\* C3: provider call isolation: whatever one provider does, the other one's
\* primary fetch is made and its block runs as it would alone; when every
\* movie call raises and the primary video fetch returns a non-empty list,
\* the bundle is returned with no movies and exactly that list of videos
\* (and the same with the two providers exchanged).
C3_ProviderIsolation ==
    Done =>
        /\ CallsOf("movie") # <<>> /\ CallsOf("video") # <<>>
        /\ CallsOf("video")
             = VideoBlock(youtube_api_key, emotion_result, provider_behaviour).calls
        /\ CallsOf("movie")
             = MovieBlock(movie_api_key, emotion_result, provider_behaviour).calls
        /\ (AllMovieCallsRaise /\ PrimaryGot("video").items # <<>>) =>
              /\ recommendations # None
              /\ recommendations.movies = <<>>
              /\ recommendations.youtube_videos = PrimaryGot("video").items
        /\ (AllVideoCallsRaise /\ PrimaryGot("movie").items # <<>>) =>
              /\ recommendations # None
              /\ recommendations.youtube_videos = <<>>
              /\ recommendations.movies = PrimaryGot("movie").items

\* the movie provider raised and the videos of the primary fetch came back
C3_Witness ==
    /\ Done
    /\ AllMovieCallsRaise
    /\ recommendations # None
    /\ recommendations.movies = <<>>
    /\ Len(recommendations.youtube_videos) >= 3

\* C4: dedup law: each list of a returned bundle holds each id at most once.
C4_DedupLaw ==
    (Done /\ recommendations # None) =>
        /\ NoDuplicateIds(recommendations.movies)
        /\ NoDuplicateIds(recommendations.youtube_videos)

\* C5: size bound: a returned bundle holds at most 6 movies and 8 videos.
C5_SizeBound ==
    (Done /\ recommendations # None) =>
        /\ Len(recommendations.movies) <= 6
        /\ Len(recommendations.youtube_videos) <= 8

\* C6: result validity: None is returned exactly when every provider call
\* of the run, the two fallback calls included, came back with nothing (an
\* empty list or an exception); a returned bundle has a movie or a video.
C6_ResultValidity ==
    Done =>
        /\ recommendations = None <=>
              /\ CallsOf("keyword") # <<>> /\ CallsOf("trending") # <<>>
              /\ \A i \in DOMAIN provider_calls :
                    provider_calls[i].got.items = <<>>
        /\ recommendations # None =>
              \/ recommendations.movies # <<>>
              \/ recommendations.youtube_videos # <<>>

\* all tiers and the global fallback came back empty: None is returned
C6_Witness ==
    /\ Done
    /\ recommendations = None
    /\ Len(provider_calls) >= 4
    /\ CallsOf("trending") # <<>>

-----------------------------------------------------------------------------
(* playlist_manager.py: the Spotify access token *)

\* token requests the model lets the manager send
MaxTokenRequests == 3

\* "if not self.spotify_access_token" (lines 136 and 139)
NoToken(token) == token = None

\* get_spotify_access_token: the new value of self.spotify_access_token and
\* whether the token request was sent.  response is the token endpoint's
\* answer: an error, or a body whose access_token may be missing (None).
get_spotify_access_token(credentials, cached, response) ==
    IF ~credentials THEN [token |-> cached, posted |-> FALSE]
    ELSE IF response.error THEN [token |-> cached, posted |-> TRUE]
    ELSE [token |-> response.access_token, posted |-> TRUE]

\* mutant of EnsureToken: the token is asked for on every search
FetchTokenAlways(credentials, cached, token_response) ==
    get_spotify_access_token(credentials, cached, token_response)

\* "if not self.spotify_access_token: self.get_spotify_access_token()"
EnsureToken(credentials, cached, token_response) ==
    IF NoToken(cached)
    THEN get_spotify_access_token(credentials, cached, token_response)
    ELSE [token |-> cached, posted |-> FALSE]

\* "for track in items: if len(tracks) >= limit: break; tracks.append(..)"
AppendUpTo(tracks, items, limit) ==
    tracks \o Take(items, limit - Len(tracks))

\* "for query in search_queries[:3]" from the k-th query on: the tracks
\* collected, the status of each request sent, and whether one of them raised
\* (requests.get or raise_for_status; a 401 when the token is not accepted)
RECURSIVE SearchLoop(_, _, _, _, _)
SearchLoop(accepted, responses, k, tracks, limit) ==
    IF k > 3 THEN [raised |-> FALSE, tracks |-> tracks, gets |-> <<>>]
    ELSE IF ~accepted
         THEN [raised |-> TRUE, tracks |-> tracks, gets |-> <<"unauthorized">>]
    ELSE IF responses[k].error
         THEN [raised |-> TRUE, tracks |-> tracks, gets |-> <<"error">>]
    ELSE LET more == AppendUpTo(tracks, responses[k].items, limit)
         IN IF Len(more) >= limit
            THEN [raised |-> FALSE, tracks |-> more, gets |-> <<"ok">>]
            ELSE LET rest == SearchLoop(accepted, responses, k + 1, more, limit)
                 IN [rest EXCEPT !.gets = <<"ok">> \o rest.gets]

\* search_spotify_tracks(emotion, limit): the token left in the cache, the
\* list returned and what the call did.  Every theme has at least two genres
\* and two moods, so that search_queries[:3] holds three queries.
search_spotify_tracks(credentials, cached, valid, limit, token_response, responses) ==
    LET fetched == EnsureToken(credentials, cached, token_response)
        token == fetched.token
        issued == fetched.posted /\ ~token_response.error /\ ~NoToken(token)
        loop == SearchLoop(issued \/ token \in valid, responses, 1, <<>>, limit)
        log == [had_token |-> ~NoToken(cached),
                token_posts |-> IF fetched.posted THEN 1 ELSE 0,
                sent |-> IF NoToken(token) THEN None ELSE token,
                gets |-> IF NoToken(token) THEN <<>> ELSE loop.gets,
                returned |-> IF NoToken(token) \/ loop.raised THEN <<>>
                             ELSE Take(loop.tracks, limit)]
    IN [token |-> token, posted |-> fetched.posted, issued |-> issued,
        log |-> log]

TrackItems(from, to) == [i \in 1..(to - from + 1) |-> [id |-> from + i - 1]]

SearchResponses ==
    { HttpError, HttpOk(<<>>), HttpOk(TrackItems(1, 3)),
      HttpOk(TrackItems(1, MaxItems)) }

\* the token endpoint's answers when it is asked for the n-th token
TokenResponses(n) ==
    { [error |-> TRUE, access_token |-> None],
      [error |-> FALSE, access_token |-> None],
      [error |-> FALSE, access_token |-> [token |-> n]] }

\* A fresh PlaylistManager; the engine is not used
SpotifyInit ==
    /\ spotify_credentials \in BOOLEAN
    /\ spotify_access_token = None
    /\ token_requests = 0
    /\ valid_tokens = {}
    /\ last_search = None
    /\ users = {}
    /\ users_id_seq = 0
    /\ emotion_history = {}
    /\ emotion_history_id_seq = 0
    /\ db_call = [c \in Callers |-> IdleCall]
    /\ analyzed_text = <<>>
    /\ sentiment_scan = None
    /\ lexical_scan = None
    /\ analysis = None
    /\ earlier = None
    /\ calls_between = 0
    /\ movie_api_key = FALSE
    /\ youtube_api_key = FALSE
    /\ emotion_result = None
    /\ provider_behaviour = None
    /\ provider_calls = <<>>
    /\ recommendations = None
    /\ engine_raised = FALSE

\* One call of search_spotify_tracks (create_mood_playlist calls it with
\* limit=8; 10 is the default)
SearchSpotifyTracks ==
    \E limit \in {8, 10} :
    \E token_response \in
            IF NoToken(spotify_access_token) /\ spotify_credentials
            THEN TokenResponses(token_requests + 1)
            ELSE {[error |-> TRUE, access_token |-> None]} :
    \E responses \in [1..3 -> SearchResponses] :
        LET run == search_spotify_tracks(spotify_credentials,
                       spotify_access_token, valid_tokens, limit,
                       token_response, responses)
        IN /\ run.posted => token_requests < MaxTokenRequests
           /\ spotify_access_token' = run.token
           /\ token_requests' = token_requests + run.log.token_posts
           /\ valid_tokens' = IF run.issued THEN valid_tokens \cup {run.token}
                              ELSE valid_tokens
           /\ last_search' = run.log
           /\ UNCHANGED spotify_credentials
           /\ UNCHANGED <<engine_vars, analyzer_vars, db_vars>>

\* The server stops accepting a token (Spotify's tokens expire after an hour)
ExpireToken ==
    \E t \in valid_tokens :
        /\ valid_tokens' = valid_tokens \ {t}
        /\ UNCHANGED <<spotify_credentials, spotify_access_token,
                       token_requests, last_search>>
        /\ UNCHANGED <<engine_vars, analyzer_vars, db_vars>>

SpotifyNext == SearchSpotifyTracks \/ ExpireToken

SpecSpotify == SpotifyInit /\ [][SpotifyNext]_vars

\* C7: token retry: a search whose request is refused with the cached token
\* drops that token, asks for a new one exactly once and sends the request
\* again.
C7_TokenRetry ==
    ( /\ last_search # None
      /\ last_search.had_token
      /\ \E i \in DOMAIN last_search.gets : last_search.gets[i] = "unauthorized" )
    => /\ last_search.token_posts = 1
       /\ Len(last_search.gets) >= 2
       /\ spotify_access_token # last_search.sent

\* C8: lazy token fetch and reuse: a step taken with a token in the cache
\* sends no token request and leaves the token in the cache (so that token
\* requests are only sent by searches that find the cache empty).
C8_TokenReuse ==
    [][spotify_access_token # None =>
          /\ token_requests' = token_requests
          /\ spotify_access_token' = spotify_access_token]_vars

\* a search that found the token of an earlier search in the cache and used it
C8_Witness ==
    /\ last_search # None
    /\ last_search.had_token
    /\ last_search.token_posts = 0
    /\ last_search.sent = spotify_access_token
    /\ last_search.returned # <<>>
    /\ token_requests = 1

-----------------------------------------------------------------------------
(* emotion_analyzer.py *)

(***************************************************************************)
(* A text is a sequence of tokens.  A token is one whitespace character,   *)
(* one punctuation character, or a run of word characters (\w) written as  *)
(* one string; two word tokens next to each other read as one longer word, *)
(* with no word boundary (\b) between them.                                *)
(***************************************************************************)

Whitespace == {" ", "\n"}

\* the punctuation _clean_text keeps
KeptPunctuation == {".", ",", "!", "?", "-"}

\* characters that are neither \w nor \s nor kept punctuation
SpecialCharacters == {"@"}

\* word tokens with capital letters, and what str.lower makes of them
Capitalised == [EXCITED |-> "excited", Sad |-> "sad"]

IsWord(token) ==
    token \notin Whitespace \cup KeptPunctuation \cup SpecialCharacters

\* str.lower, token by token
LowerText(text) ==
    [i \in DOMAIN text |-> IF text[i] \in DOMAIN Capitalised
                           THEN Capitalised[text[i]] ELSE text[i]]

\* re.sub(r'\s+', ' ', text)
RECURSIVE CollapseWhitespace(_)
CollapseWhitespace(text) ==
    IF text = <<>> THEN <<>>
    ELSE IF Head(text) \in Whitespace
         THEN IF Len(text) > 1 /\ text[2] \in Whitespace
              THEN CollapseWhitespace(Tail(text))
              ELSE <<" ">> \o CollapseWhitespace(Tail(text))
         ELSE <<Head(text)>> \o CollapseWhitespace(Tail(text))

\* re.sub(r'[^\w\s.,!?-]', '', text)
RECURSIVE RemoveSpecial(_)
RemoveSpecial(text) ==
    IF text = <<>> THEN <<>>
    ELSE (IF Head(text) \in SpecialCharacters THEN <<>> ELSE <<Head(text)>>)
             \o RemoveSpecial(Tail(text))

RECURSIVE LStrip(_)
LStrip(text) ==
    IF text # <<>> /\ Head(text) \in Whitespace THEN LStrip(Tail(text)) ELSE text

RECURSIVE RStrip(_)
RStrip(text) ==
    IF text # <<>> /\ text[Len(text)] \in Whitespace
    THEN RStrip(SubSeq(text, 1, Len(text) - 1)) ELSE text

\* str.strip
Strip(text) == RStrip(LStrip(text))

_clean_text(text) == Strip(RemoveSpecial(CollapseWhitespace(LowerText(text))))

\* the keywords, each as the tokens it is written with
emotion_keywords ==
    [joy |-> <<<<"happy">>, <<"excited">>, <<"thrilled">>, <<"joyful">>,
            <<"elated">>, <<"cheerful">>, <<"delighted">>, <<"euphoric">>,
            <<"upbeat">>, <<"optimistic">>>>,
     sadness |-> <<<<"sad">>, <<"depressed">>, <<"down">>, <<"melancholy">>,
            <<"grief">>, <<"sorrow">>, <<"heartbroken">>, <<"dejected">>,
            <<"gloomy">>, <<"blue">>>>,
     anger |-> <<<<"angry">>, <<"furious">>, <<"irritated">>, <<"mad">>,
            <<"rage">>, <<"frustrated">>, <<"annoyed">>, <<"outraged">>,
            <<"livid">>, <<"hostile">>>>,
     fear |-> <<<<"scared">>, <<"afraid">>, <<"terrified">>, <<"anxious">>,
            <<"worried">>, <<"nervous">>, <<"panic">>, <<"frightened">>,
            <<"apprehensive">>, <<"uneasy">>>>,
     surprise |-> <<<<"surprised">>, <<"shocked">>, <<"amazed">>,
            <<"astonished">>, <<"stunned">>, <<"bewildered">>,
            <<"startled">>, <<"astounded">>>>,
     disgust |-> <<<<"disgusted">>, <<"revolted">>, <<"repulsed">>,
            <<"sickened">>, <<"nauseated">>, <<"appalled">>, <<"horrified">>>>,
     love |-> <<<<"love">>, <<"adore">>, <<"cherish">>, <<"romantic">>,
            <<"affectionate">>, <<"tender">>, <<"passionate">>,
            <<"devoted">>, <<"infatuated">>>>,
     anticipation |-> <<<<"excited">>, <<"eager">>,
            <<"looking", " ", "forward">>, <<"anticipating">>, <<"hopeful">>,
            <<"expectant">>, <<"enthusiastic">>>>,
     calm |-> <<<<"calm">>, <<"peaceful">>, <<"relaxed">>, <<"serene">>,
            <<"tranquil">>, <<"content">>, <<"balanced">>, <<"centered">>,
            <<"zen">>>>,
     stress |-> <<<<"stressed">>, <<"overwhelmed">>, <<"pressure">>,
            <<"burden">>, <<"exhausted">>, <<"burned", " ", "out">>,
            <<"tense">>, <<"strained">>>>]

\* len(re.findall(r'\b' + keyword + r'\b', text)): the places where the
\* keyword stands with a word boundary on either side
KeywordCount(keyword, text) ==
    Cardinality({ i \in 1..(Len(text) - Len(keyword) + 1) :
        /\ SubSeq(text, i, i + Len(keyword) - 1) = keyword
        /\ (i = 1 \/ ~IsWord(text[i - 1]))
        /\ (i + Len(keyword) - 1 = Len(text) \/ ~IsWord(text[i + Len(keyword)])) })

RECURSIVE SumCounts(_, _)
SumCounts(keywords, text) ==
    IF keywords = <<>> THEN 0
    ELSE KeywordCount(Head(keywords), text) + SumCounts(Tail(keywords), text)

\* _detect_keyword_emotions: the dict emotion -> score of the emotions with a
\* score above 0; its keys keep the order of emotion_keywords
_detect_keyword_emotions(text) ==
    LET score == [e \in EmotionSet |-> SumCounts(emotion_keywords[e], text)]
    IN [e \in {x \in EmotionSet : score[x] > 0} |-> score[e]]

\* the keys of the dict in insertion order
RECURSIVE KeysInOrder(_, _)
KeysInOrder(keyword_emotions, i) ==
    IF i > Len(Emotions) THEN <<>>
    ELSE (IF Emotions[i] \in DOMAIN keyword_emotions THEN <<Emotions[i]>>
          ELSE <<>>) \o KeysInOrder(keyword_emotions, i + 1)

\* mutant of MaxKeywordEmotion: the first key, whatever its score
FirstKeywordEmotion(keyword_emotions) == KeysInOrder(keyword_emotions, 1)[1]

\* mutant of MaxKeywordEmotion: of the keys with the highest score, the last
LastMaxKeywordEmotion(keyword_emotions) ==
    LET keys == KeysInOrder(keyword_emotions, 1)
        best == CHOOSE i \in DOMAIN keys :
                    /\ \A j \in DOMAIN keys :
                          keyword_emotions[keys[j]] <= keyword_emotions[keys[i]]
                    /\ \A j \in (i + 1)..Len(keys) :
                          keyword_emotions[keys[j]] < keyword_emotions[keys[i]]
    IN keys[best]

\* max(keyword_emotions.items(), key=lambda x: x[1])[0]: the first key, in
\* insertion order, with the highest score
MaxKeywordEmotion(keyword_emotions) ==
    LET keys == KeysInOrder(keyword_emotions, 1)
        best == CHOOSE i \in DOMAIN keys :
                    /\ \A j \in DOMAIN keys :
                          keyword_emotions[keys[j]] <= keyword_emotions[keys[i]]
                    /\ \A j \in 1..(i - 1) :
                          keyword_emotions[keys[j]] < keyword_emotions[keys[i]]
    IN keys[best]

\* mutant of FirstPresent: the last emotion of the list that is a key
RECURSIVE LastPresent(_, _, _)
LastPresent(emotions, keyword_emotions, default) ==
    IF emotions = <<>> THEN default
    ELSE IF emotions[Len(emotions)] \in DOMAIN keyword_emotions
         THEN emotions[Len(emotions)]
         ELSE LastPresent(SubSeq(emotions, 1, Len(emotions) - 1),
                          keyword_emotions, default)

\* mutant of FirstPresent: the default, whatever the dict holds
DefaultOnly(emotions, keyword_emotions, default) == default

\* the first emotion of the list that is a key of the dict, else the default
RECURSIVE FirstPresent(_, _, _)
FirstPresent(emotions, keyword_emotions, default) ==
    IF emotions = <<>> THEN default
    ELSE IF Head(emotions) \in DOMAIN keyword_emotions THEN Head(emotions)
         ELSE FirstPresent(Tail(emotions), keyword_emotions, default)

\* mutant of _determine_primary_emotion: a text without strong sentiment and
\* without keywords is labelled "neutral"
PrimaryOrNeutral(vader_scores, textblob_polarity, keyword_emotions) ==
    LET has_keywords == DOMAIN keyword_emotions # {}
        compound_score == vader_scores.compound
    IN IF has_keywords
          /\ keyword_emotions[MaxKeywordEmotion(keyword_emotions)] >= 2
       THEN MaxKeywordEmotion(keyword_emotions)
       ELSE IF compound_score >= 500
       THEN FirstPresent(<<"joy", "love", "anticipation", "surprise">>,
                         keyword_emotions, "joy")
       ELSE IF compound_score <= -500
       THEN FirstPresent(<<"sadness", "anger", "fear", "disgust">>,
                keyword_emotions,
                IF vader_scores.neg > 300
                THEN (IF textblob_polarity < -300 THEN "sadness" ELSE "anger")
                ELSE "sadness")
       ELSE IF has_keywords THEN MaxKeywordEmotion(keyword_emotions)
       ELSE "neutral"

\* mutant of _determine_primary_emotion: without the test "if
\* keyword_emotions" of the neutral branch
PrimaryNeutralCalm(vader_scores, textblob_polarity, keyword_emotions) ==
    LET has_keywords == DOMAIN keyword_emotions # {}
        compound_score == vader_scores.compound
    IN IF has_keywords
          /\ keyword_emotions[MaxKeywordEmotion(keyword_emotions)] >= 2
       THEN MaxKeywordEmotion(keyword_emotions)
       ELSE IF compound_score >= 500
       THEN FirstPresent(<<"joy", "love", "anticipation", "surprise">>,
                         keyword_emotions, "joy")
       ELSE IF compound_score <= -500
       THEN FirstPresent(<<"sadness", "anger", "fear", "disgust">>,
                keyword_emotions,
                IF vader_scores.neg > 300
                THEN (IF textblob_polarity < -300 THEN "sadness" ELSE "anger")
                ELSE "sadness")
       ELSE "calm"

\* _determine_primary_emotion; scores in thousandths
_determine_primary_emotion(vader_scores, textblob_polarity, keyword_emotions) ==
    LET has_keywords == DOMAIN keyword_emotions # {}
        compound_score == vader_scores.compound
    IN IF has_keywords
          /\ keyword_emotions[MaxKeywordEmotion(keyword_emotions)] >= 2
       THEN MaxKeywordEmotion(keyword_emotions)
       ELSE IF compound_score >= 500
       THEN FirstPresent(<<"joy", "love", "anticipation", "surprise">>,
                         keyword_emotions, "joy")
       ELSE IF compound_score <= -500
       THEN FirstPresent(<<"sadness", "anger", "fear", "disgust">>,
                keyword_emotions,
                IF vader_scores.neg > 300
                THEN (IF textblob_polarity < -300 THEN "sadness" ELSE "anger")
                ELSE "sadness")
       ELSE IF has_keywords THEN MaxKeywordEmotion(keyword_emotions)
       ELSE IF "stress" \in DOMAIN keyword_emotions
               \/ \E word \in DOMAIN keyword_emotions :
                     word \in {"stress", "overwhelm", "pressure"}
       THEN "stress"
       ELSE IF \E word \in DOMAIN keyword_emotions :
                  word \in {"calm", "peace", "relax"}
       THEN "calm"
       ELSE "calm"

Min(a, b) == IF a <= b THEN a ELSE b

Max(a, b) == IF a >= b THEN a ELSE b

Abs(a) == IF a >= 0 THEN a ELSE -a

MaxScore(keyword_emotions) ==
    CHOOSE n \in {keyword_emotions[e] : e \in DOMAIN keyword_emotions} :
        \A e \in DOMAIN keyword_emotions : keyword_emotions[e] <= n

\* mutant of _calculate_confidence: the keyword factor without min(.., 1.0)
ConfidenceUnclamped(vader_scores, textblob_subjectivity, keyword_emotions) ==
    LET compound_strength == Abs(vader_scores.compound)
        keyword_confidence ==
            IF DOMAIN keyword_emotions # {}
            THEN MaxScore(keyword_emotions) * 200
            ELSE 300
        sum == Min(compound_strength * 2, 1000) + textblob_subjectivity
                   + keyword_confidence
    IN Max(sum, 1200)

\* mutant of _calculate_confidence: without the floor max(.., 0.4)
ConfidenceWithoutFloor(vader_scores, textblob_subjectivity, keyword_emotions) ==
    LET compound_strength == Abs(vader_scores.compound)
        keyword_confidence ==
            IF DOMAIN keyword_emotions # {}
            THEN Min(MaxScore(keyword_emotions) * 200, 1000)
            ELSE 300
    IN Min(compound_strength * 2, 1000) + textblob_subjectivity
           + keyword_confidence

\* _calculate_confidence.  The three factors are in thousandths; the result
\* is their sum, that is the average in units of 1/3000, and 0.4 is 1200.
_calculate_confidence(vader_scores, textblob_subjectivity, keyword_emotions) ==
    LET compound_strength == Abs(vader_scores.compound)
        keyword_confidence ==
            IF DOMAIN keyword_emotions # {}
            THEN Min(MaxScore(keyword_emotions) * 200, 1000)
            ELSE 300
        sum == Min(compound_strength * 2, 1000) + textblob_subjectivity
                   + keyword_confidence
    IN Max(sum, 1200)

\* the emotions of the list with the given score, in the order of the list
RECURSIVE WithScore(_, _, _)
WithScore(emotions, keyword_emotions, n) ==
    IF emotions = <<>> THEN <<>>
    ELSE (IF keyword_emotions[Head(emotions)] = n THEN <<Head(emotions)>>
          ELSE <<>>) \o WithScore(Tail(emotions), keyword_emotions, n)

\* mutant of SortedByScore: the list as it is, in the order of the dict
Unsorted(emotions, keyword_emotions, n) == emotions

\* sorted(secondary, key=score, reverse=True): stable, highest score first
RECURSIVE SortedByScore(_, _, _)
SortedByScore(emotions, keyword_emotions, n) ==
    IF n <= 0 THEN <<>>
    ELSE WithScore(emotions, keyword_emotions, n)
             \o SortedByScore(emotions, keyword_emotions, n - 1)

RECURSIVE Without(_, _)
Without(emotions, e) ==
    IF emotions = <<>> THEN <<>>
    ELSE (IF Head(emotions) # e THEN <<Head(emotions)>> ELSE <<>>)
             \o Without(Tail(emotions), e)

\* mutant of _get_secondary_emotions: without "emotion != primary_emotion"
SecondaryWithPrimary(keyword_emotions, primary_emotion) ==
    LET secondary == KeysInOrder(keyword_emotions, 1)
    IN IF secondary = <<>> THEN <<>>
       ELSE Take(SortedByScore(secondary, keyword_emotions,
                               MaxScore(keyword_emotions)), 2)

_get_secondary_emotions(keyword_emotions, primary_emotion) ==
    LET secondary == Without(KeysInOrder(keyword_emotions, 1), primary_emotion)
    IN IF secondary = <<>> THEN <<>>
       ELSE Take(SortedByScore(secondary, keyword_emotions,
                               MaxScore(keyword_emotions)), 2)

\* mutant of IsBlankInput: "if not text"
IsEmptyInput(text) == text = <<>>

\* "if not text or not text.strip()"
IsBlankInput(text) == text = <<>> \/ Strip(text) = <<>>

\* How a call ends: with a value, or with an exception leaving the method
Returns(value) == [raised |-> FALSE, value |-> value]

Propagates == [raised |-> TRUE, value |-> None]

\* the scoring of lines 30-69: the dict that is returned
ScoreText(text, scan) ==
    LET clean_text == _clean_text(text)
        vader_scores == scan.vader
        keyword_emotions == _detect_keyword_emotions(clean_text)
        primary_emotion ==
            _determine_primary_emotion(vader_scores, scan.polarity,
                                       keyword_emotions)
    IN [primary_emotion |-> primary_emotion,
        confidence |-> _calculate_confidence(vader_scores, scan.subjectivity,
                                             keyword_emotions),
        secondary_emotions |->
            _get_secondary_emotions(keyword_emotions, primary_emotion),
        sentiment_scores |->
            [compound |-> vader_scores.compound, positive |-> vader_scores.pos,
             negative |-> vader_scores.neg, neutral |-> vader_scores.neu],
        textblob_polarity |-> scan.polarity,
        textblob_subjectivity |-> scan.subjectivity]

\* mutant of analyze_emotion: without the try/except around the scoring
analyze_emotion_unguarded(text, scan) ==
    IF IsBlankInput(text) THEN Returns(None)
    ELSE IF scan.raises THEN Propagates
    ELSE Returns(ScoreText(text, scan))

\* mutant of analyze_emotion: an analyzer that keeps a flag set by its first
\* call and answers None from then on
analyze_emotion_once(text, scan) ==
    IF earlier # None \/ IsBlankInput(text) THEN Returns(None)
    ELSE IF scan.raises THEN Returns(None)
    ELSE Returns(ScoreText(text, scan))

\* analyze_emotion(text).  scan is what the two sentiment libraries answer
\* on the cleaned text: scan.raises says that one of the calls raises, and
\* the handler of lines 71-73 then returns None.
analyze_emotion(text, scan) ==
    IF IsBlankInput(text) THEN Returns(None)
    ELSE IF scan.raises THEN Returns(None)
    ELSE Returns(ScoreText(text, scan))

\* the dict that line 42 builds, when the call gets that far: the sentiment
\* calls of lines 34-39 come first
KeywordScan(text, scan) ==
    IF IsBlankInput(text) \/ scan.raises THEN None
    ELSE _detect_keyword_emotions(_clean_text(text))

\* longest text, in tokens
MaxTextLen == 3

TextTokens == {" ", "\n", "@", "!", "happy", "EXCITED", "sad", "burned", "out"}

Texts == UNION {[1..n -> TextTokens] : n \in 0..MaxTextLen}

Scan(compound, pos, neg, neu, polarity, subjectivity) ==
    [raises |-> FALSE,
     vader |-> [compound |-> compound, pos |-> pos, neg |-> neg, neu |-> neu],
     polarity |-> polarity, subjectivity |-> subjectivity]

\* one of the two library calls raises
ScanRaises == [raises |-> TRUE]

\* the libraries are not called
NoScan == [raises |-> FALSE]

\* answers of VADER and TextBlob, in thousandths
SentimentScans ==
    { Scan(0, 0, 0, 1000, 0, 0),
      Scan(499, 300, 0, 700, 200, 1000),
      Scan(500, 400, 0, 600, 500, 600),
      Scan(1000, 900, 0, 100, 1000, 1000),
      Scan(-499, 0, 300, 700, -100, 400),
      Scan(-500, 0, 400, 600, -500, 1000),
      Scan(-800, 100, 310, 590, -300, 500),
      Scan(-600, 0, 300, 700, 0, 0) }

\* A fresh EmotionAnalyzer; nothing else is used
AnalyzerInit ==
    /\ analyzed_text = <<>>
    /\ sentiment_scan = None
    /\ lexical_scan = None
    /\ analysis = None
    /\ earlier = None
    /\ calls_between = 0
    /\ movie_api_key = FALSE
    /\ youtube_api_key = FALSE
    /\ emotion_result = None
    /\ provider_behaviour = None
    /\ provider_calls = <<>>
    /\ recommendations = None
    /\ engine_raised = FALSE
    /\ spotify_credentials = FALSE
    /\ spotify_access_token = None
    /\ token_requests = 0
    /\ valid_tokens = {}
    /\ last_search = None
    /\ users = {}
    /\ users_id_seq = 0
    /\ emotion_history = {}
    /\ emotion_history_id_seq = 0
    /\ db_call = [c \in Callers |-> IdleCall]

\* One call of analyze_emotion(text), made by the page for a submitted text
AnalyzeEmotion ==
    /\ analysis = None
    /\ \E text \in Texts :
        \E scan \in IF IsBlankInput(text) THEN {NoScan}
                    ELSE SentimentScans \cup {ScanRaises} :
            /\ analyzed_text' = text
            /\ sentiment_scan' = scan
            /\ lexical_scan' = KeywordScan(text, scan)
            /\ analysis' = analyze_emotion(text, scan)
            /\ UNCHANGED <<earlier, calls_between>>
            /\ UNCHANGED <<engine_vars, spotify_vars, db_vars>>

\* The page is done with the analysis; the analyzer keeps nothing of it
NextText ==
    /\ analysis # None
    /\ analyzed_text' = <<>>
    /\ sentiment_scan' = None
    /\ lexical_scan' = None
    /\ analysis' = None
    /\ UNCHANGED <<earlier, calls_between>>
    /\ UNCHANGED <<engine_vars, spotify_vars, db_vars>>

AnalyzerNext == AnalyzeEmotion \/ NextText

SpecAnalyzer == AnalyzerInit /\ [][AnalyzerNext]_vars

\* a call of analyze_emotion has ended
Analyzed == analysis # None

\* the text is empty or holds whitespace only
WhitespaceOnly(text) == \A i \in DOMAIN text : text[i] \in Whitespace

ResultFields ==
    {"primary_emotion", "confidence", "secondary_emotions", "sentiment_scores",
     "textblob_polarity", "textblob_subjectivity"}

\* C9 as claimed: analyze_emotion returns None for every empty or
\* whitespace-only text and for no other text.
C9_EmptyOnlyForBlank ==
    Analyzed =>
        (analysis.value = None <=> WhitespaceOnly(analyzed_text))

\* C9 as amended: analyze_emotion returns None for every empty or
\* whitespace-only text; for any other text it returns None exactly when a
\* sentiment library call raises, and an EmotionResult otherwise.
C9_EmptyForBlankOrError ==
    Analyzed =>
        /\ WhitespaceOnly(analyzed_text) => analysis = Returns(None)
        /\ analysis.value = None <=>
              (WhitespaceOnly(analyzed_text) \/ sentiment_scan.raises)

\* a text of special characters and whitespace only: it is not blank, its
\* cleaned text is empty, and it is analysed (as calm)
C9_Witness ==
    /\ Analyzed
    /\ Len(analyzed_text) >= 2
    /\ ~WhitespaceOnly(analyzed_text)
    /\ \E i \in DOMAIN analyzed_text : analyzed_text[i] \in Whitespace
    /\ _clean_text(analyzed_text) = <<>>
    /\ analysis.value # None
    /\ analysis.value.primary_emotion = "calm"

\* C10: an error raised while scoring is caught inside analyze_emotion: no
\* exception leaves the call, the call returns None, and a value other than
\* None is a complete EmotionResult.
C10_ErrorsSurfaceAsEmpty ==
    Analyzed =>
        /\ ~analysis.raised
        /\ sentiment_scan.raises => analysis.value = None
        /\ analysis.value # None => DOMAIN analysis.value = ResultFields

\* a library call raised on a text with words in it and None came back
C10_Witness ==
    /\ Analyzed
    /\ sentiment_scan.raises
    /\ \E i \in DOMAIN analyzed_text : IsWord(analyzed_text[i])
    /\ analysis = Returns(None)

-----------------------------------------------------------------------------
(* emotion_analyzer.py: the scoring of texts made of keywords *)

\* most words in a text made of keywords
MaxWords == 3

\* most repetitions of one keyword in a text
MaxRepeat == 6

\* the words such a text is written with: one keyword of each emotion,
\* "excited", which is a keyword of joy and of anticipation, and a word that
\* is no keyword
Words ==
    <<"happy", "sad", "mad", "scared", "shocked", "disgusted", "love",
      "eager", "calm", "tense", "EXCITED", "today">>

\* the words joined by single spaces
RECURSIVE Sentence(_)
Sentence(words) ==
    IF words = <<>> THEN <<>>
    ELSE IF Len(words) = 1 THEN words
    ELSE <<Head(words), " ">> \o Sentence(Tail(words))

\* texts of up to MaxWords words (the order of the words does not matter to
\* the scoring: they are listed in the order of Words), and texts that
\* repeat one word up to MaxRepeat times
KeywordTexts ==
    { Sentence([i \in DOMAIN pick |-> Words[pick[i]]]) :
        pick \in { p \in UNION {[1..n -> DOMAIN Words] : n \in 0..MaxWords} :
                     \A i \in 1..(Len(p) - 1) : p[i] <= p[i + 1] } }
    \cup { Sentence([i \in 1..n |-> Words[w]]) :
             w \in DOMAIN Words, n \in 1..MaxRepeat }

\* One call of analyze_emotion(text) for a text made of keywords
AnalyzeKeywordText ==
    /\ analysis = None
    /\ \E text \in KeywordTexts :
        \E scan \in IF IsBlankInput(text) THEN {NoScan}
                    ELSE SentimentScans \cup {ScanRaises} :
            /\ analyzed_text' = text
            /\ sentiment_scan' = scan
            /\ lexical_scan' = KeywordScan(text, scan)
            /\ analysis' = analyze_emotion(text, scan)
            /\ UNCHANGED <<earlier, calls_between>>
            /\ UNCHANGED <<engine_vars, spotify_vars, db_vars>>

ScoringNext == AnalyzeKeywordText \/ NextText

SpecScoring == AnalyzerInit /\ [][ScoringNext]_vars

\* analyze_emotion has returned an EmotionResult
Scored == Analyzed /\ analysis.value # None

\* the lexical mapping of the text that was analysed
Lexical == lexical_scan

\* C11: in a returned EmotionResult primary_emotion is not among
\* secondary_emotions, and secondary_emotions has at most two entries.
C11_SecondaryExcludesPrimary ==
    Scored =>
        LET result == analysis.value
        IN /\ \A i \in DOMAIN result.secondary_emotions :
                 result.secondary_emotions[i] # result.primary_emotion
           /\ Len(result.secondary_emotions) <= MaxSecondary

\* three emotions have keywords in the text, the primary emotion is a default
\* label that has none, and two of the three are the secondary emotions
C11_Witness ==
    /\ Scored
    /\ Cardinality(DOMAIN Lexical) >= 3
    /\ analysis.value.primary_emotion \notin DOMAIN Lexical
    /\ Len(analysis.value.secondary_emotions) = 2

\* C12: the confidence of a returned EmotionResult lies in [0.4, 1.0]
\* (1200 to 3000 in units of 1/3000).
C12_ConfidenceRange ==
    Scored =>
        /\ analysis.value.confidence >= 1200
        /\ analysis.value.confidence <= 3000

\* one keyword six times over, with the strongest compound and subjectivity:
\* every factor is at its cap and the confidence is 1.0
C12_Witness ==
    /\ Scored
    /\ DOMAIN Lexical # {}
    /\ MaxScore(Lexical) > 5
    /\ Abs(sentiment_scan.vader.compound) = 1000
    /\ sentiment_scan.subjectivity = 1000
    /\ analysis.value.confidence = 3000

\* C13: the primary emotion of a returned EmotionResult is one of the ten
\* labels.
C13_PrimaryIsLabel ==
    Scored => analysis.value.primary_emotion \in EmotionSet

\* a text without keywords and without strong sentiment: the last branch of
\* the decision gives calm
C13_Witness ==
    /\ Scored
    /\ DOMAIN Lexical = {}
    /\ sentiment_scan.vader.compound > -500
    /\ sentiment_scan.vader.compound < 500
    /\ analysis.value.primary_emotion = "calm"

\* the lexical mapping has a count of 2 or more: rule (a) applies
StrongKeywords == DOMAIN Lexical # {} /\ MaxScore(Lexical) >= 2

\* C18: rule (a): when the highest count of the lexical mapping is 2 or
\* more, the primary emotion is an emotion with that count, whatever the
\* sentiment scores are.
C18_StrongKeywordsDecide ==
    (Scored /\ StrongKeywords) =>
        /\ analysis.value.primary_emotion \in DOMAIN Lexical
        /\ Lexical[analysis.value.primary_emotion] = MaxScore(Lexical)

\* two joy keywords in a text with a strongly negative compound give joy
C18_Witness ==
    /\ Scored
    /\ "joy" \in DOMAIN Lexical
    /\ Lexical["joy"] = 2
    /\ MaxScore(Lexical) = 2
    /\ sentiment_scan.vader.compound <= -500
    /\ analysis.value.primary_emotion = "joy"

\* C19: rule (c): without a count of 2 or more and with a compound of -0.5
\* or less, the primary emotion is the first of sadness, anger, fear and
\* disgust in the lexical mapping; when none of them is in it, it is sadness
\* if the negative proportion is above 0.3 and the polarity below -0.3,
\* anger if the negative proportion is above 0.3 and the polarity is not
\* below -0.3, and sadness if the negative proportion is 0.3 or less.
C19_StrongNegativeRule ==
    (Scored /\ ~StrongKeywords /\ sentiment_scan.vader.compound <= -500) =>
        analysis.value.primary_emotion =
            IF "sadness" \in DOMAIN Lexical THEN "sadness"
            ELSE IF "anger" \in DOMAIN Lexical THEN "anger"
            ELSE IF "fear" \in DOMAIN Lexical THEN "fear"
            ELSE IF "disgust" \in DOMAIN Lexical THEN "disgust"
            ELSE IF sentiment_scan.vader.neg > 300
                 THEN (IF sentiment_scan.polarity < -300 THEN "sadness"
                       ELSE "anger")
                 ELSE "sadness"

\* anger and fear both have a keyword in the text, sadness has none: anger
C19_Witness ==
    /\ Scored
    /\ ~StrongKeywords
    /\ sentiment_scan.vader.compound <= -500
    /\ {"anger", "fear"} \subseteq DOMAIN Lexical
    /\ "sadness" \notin DOMAIN Lexical
    /\ analysis.value.primary_emotion = "anger"

\* C20: rule (b): without a count of 2 or more and with a compound of 0.5
\* or more, the primary emotion is the first of joy, love, anticipation and
\* surprise in the lexical mapping, and joy when none of them is in it.
C20_StrongPositiveRule ==
    (Scored /\ ~StrongKeywords /\ sentiment_scan.vader.compound >= 500) =>
        analysis.value.primary_emotion =
            IF "joy" \in DOMAIN Lexical THEN "joy"
            ELSE IF "love" \in DOMAIN Lexical THEN "love"
            ELSE IF "anticipation" \in DOMAIN Lexical THEN "anticipation"
            ELSE IF "surprise" \in DOMAIN Lexical THEN "surprise"
            ELSE "joy"

\* the text holds a keyword of sadness only and its compound is strongly
\* positive: joy
C20_Witness ==
    /\ Scored
    /\ DOMAIN Lexical = {"sadness"}
    /\ Lexical["sadness"] = 1
    /\ sentiment_scan.vader.compound >= 500
    /\ analysis.value.primary_emotion = "joy"

\* the compound lies strictly between -0.5 and 0.5
NeutralBand ==
    /\ sentiment_scan.vader.compound > -500
    /\ sentiment_scan.vader.compound < 500

\* C21: rule (d): without a count of 2 or more and with a compound strictly
\* between -0.5 and 0.5, the primary emotion is an emotion with the highest
\* count of the lexical mapping when the mapping is not empty, and calm when
\* it is empty (never stress).
C21_NeutralBandRule ==
    (Scored /\ ~StrongKeywords /\ NeutralBand) =>
        IF DOMAIN Lexical # {}
        THEN /\ analysis.value.primary_emotion \in DOMAIN Lexical
             /\ Lexical[analysis.value.primary_emotion] = MaxScore(Lexical)
        ELSE analysis.value.primary_emotion = "calm"

\* one keyword of stress and one of sadness in a text without strong
\* sentiment: the mapping decides
C21_Witness ==
    /\ Scored
    /\ NeutralBand
    /\ DOMAIN Lexical = {"sadness", "stress"}
    /\ MaxScore(Lexical) = 1
    /\ analysis.value.primary_emotion \in DOMAIN Lexical

\* C22: the secondary emotions are emotions of the lexical mapping other
\* than the primary one, each once, two of them or all if there are fewer;
\* they stand in non-increasing order of count, and no emotion left out has
\* a higher count than one that is listed.
C22_SecondaryByCount ==
    Scored =>
        LET secondary == analysis.value.secondary_emotions
            others == DOMAIN Lexical \ {analysis.value.primary_emotion}
            listed == {secondary[i] : i \in DOMAIN secondary}
        IN /\ listed \subseteq others
           /\ Cardinality(listed) = Len(secondary)
           /\ Len(secondary) = Min(2, Cardinality(others))
           /\ \A i, j \in DOMAIN secondary :
                 i < j => Lexical[secondary[i]] >= Lexical[secondary[j]]
           /\ \A e \in others \ listed : \A i \in DOMAIN secondary :
                 Lexical[e] <= Lexical[secondary[i]]

\* anticipation has a higher count than sadness and is listed before it,
\* against the order of the keyword table
C22_Witness ==
    /\ Scored
    /\ analysis.value.secondary_emotions = <<"anticipation", "sadness">>
    /\ Lexical["anticipation"] > Lexical["sadness"]

\* C23: the confidence is the mean of three factors, or 0.4 if the mean is
\* lower: min(|compound| * 2, 1), the subjectivity, and min(max_count / 5, 1)
\* for a lexical mapping that is not empty, 0.3 for an empty one.  (In units
\* of 1/3000 the mean of three factors in thousandths is their sum.)
C23_ConfidenceFormula ==
    Scored =>
        LET compound == sentiment_scan.vader.compound
            strength == IF compound >= 0 THEN 2 * compound ELSE -2 * compound
            first == IF strength <= 1000 THEN strength ELSE 1000
            second == sentiment_scan.subjectivity
            third == IF DOMAIN Lexical = {} THEN 300
                     ELSE IF \E e \in DOMAIN Lexical : Lexical[e] >= 5 THEN 1000
                     ELSE 200 * MaxScore(Lexical)
            mean == first + second + third
        IN analysis.value.confidence = IF mean >= 1200 THEN mean ELSE 1200

\* a text with keywords whose three factors are all below their caps and
\* whose mean is above the floor
C23_Witness ==
    /\ Scored
    /\ DOMAIN Lexical # {}
    /\ MaxScore(Lexical) < 5
    /\ Abs(sentiment_scan.vader.compound) < 500
    /\ sentiment_scan.subjectivity < 1000
    /\ analysis.value.confidence > 1200
    /\ analysis.value.confidence
          = 2 * Abs(sentiment_scan.vader.compound)
              + sentiment_scan.subjectivity + 200 * MaxScore(Lexical)

-----------------------------------------------------------------------------
\* several emotions share the highest count of the lexical mapping
TiedMaximum ==
    /\ DOMAIN Lexical # {}
    /\ Cardinality({e \in DOMAIN Lexical : Lexical[e] = MaxScore(Lexical)}) >= 2

\* C27: when several emotions share the highest count, rule (a) (highest
\* count 2 or more) and rule (d) (neutral band, some keyword) choose the one
\* that comes first in the order of the keyword table: joy, sadness, anger,
\* fear, surprise, disgust, love, anticipation, calm, stress.
C27_TieBreakByTableOrder ==
    (Scored /\ TiedMaximum /\ (StrongKeywords \/ NeutralBand)) =>
        \E i \in DOMAIN Emotions :
            /\ analysis.value.primary_emotion = Emotions[i]
            /\ Emotions[i] \in DOMAIN Lexical
            /\ Lexical[Emotions[i]] = MaxScore(Lexical)
            /\ \A j \in 1..(i - 1) :
                  Emotions[j] \in DOMAIN Lexical
                      => Lexical[Emotions[j]] < MaxScore(Lexical)

\* "excited excited": 2 for joy and 2 for anticipation, and joy is the
\* primary emotion with anticipation as the secondary one
C27_Witness ==
    /\ Scored
    /\ analyzed_text = <<"EXCITED", " ", "EXCITED">>
    /\ TiedMaximum
    /\ Lexical = [joy |-> 2, anticipation |-> 2]
    /\ analysis.value.primary_emotion = "joy"
    /\ analysis.value.secondary_emotions = <<"anticipation">>

(* Properties of get_recommendations, continued *)

\* every call made to the movie provider (the keyword search included), or to
\* the video provider (the trending lookup included), raised
ProviderFailed(ops) ==
    \A i \in DOMAIN provider_calls :
        provider_calls[i].op \in ops => provider_calls[i].got.raised

\* C14: no exception leaves get_recommendations: it returns a bundle or
\* None, and a provider all of whose calls raise leaves an empty list in a
\* returned bundle.
C14_NoExceptionPropagates ==
    Done =>
        /\ ~engine_raised
        /\ \/ recommendations = None
           \/ DOMAIN recommendations = {"movies", "youtube_videos", "reasoning"}
        /\ (recommendations # None /\ ProviderFailed({"movie", "keyword"}))
              => recommendations.movies = <<>>
        /\ (recommendations # None /\ ProviderFailed({"video", "trending"}))
              => recommendations.youtube_videos = <<>>

\* both providers raised in the tiers, the keyword search raised too, and the
\* trending lookup filled the bundle
C14_Witness ==
    /\ Done
    /\ ~engine_raised
    /\ AllMovieCallsRaise /\ AllVideoCallsRaise
    /\ ProviderFailed({"movie", "video", "keyword"})
    /\ CallsOf("keyword") # <<>>
    /\ recommendations # None
    /\ recommendations.movies = <<>>

-----------------------------------------------------------------------------
(* emotion_analyzer.py: repeated calls *)

\* most calls on other texts between a call and its repetition
MaxCallsBetween == 2

\* the texts that are submitted more than once
RepeatTexts ==
    { <<" ">>, <<"@">>, <<"today">>, <<"happy">>, <<"happy", " ", "happy">>,
      <<"EXCITED", "\n", "sad">> }

\* One call of analyze_emotion(text) on an analyzer that has been called
\* before.  VADER and TextBlob are functions of the text they are given: the
\* text of the call that is kept gets the answer it got then.  The call has
\* nothing of the analyzer to write to: __init__ alone assigns vader_analyzer
\* and emotion_keywords.
AnalyzeAgain ==
    /\ analysis = None
    /\ \E text \in RepeatTexts, keep \in BOOLEAN :
        \E scan \in IF IsBlankInput(text) THEN {NoScan}
                    ELSE IF earlier # None /\ text = earlier.text
                         THEN {earlier.scan}
                         ELSE SentimentScans \cup {ScanRaises} :
            /\ (earlier # None /\ text # earlier.text)
                  => calls_between < MaxCallsBetween
            /\ analyzed_text' = text
            /\ sentiment_scan' = scan
            /\ lexical_scan' = KeywordScan(text, scan)
            /\ analysis' = analyze_emotion(text, scan)
            /\ earlier' = IF earlier = None /\ keep
                          THEN [text |-> text, scan |-> scan,
                                result |-> analysis']
                          ELSE earlier
            /\ calls_between' = IF earlier # None /\ text # earlier.text
                                THEN calls_between + 1 ELSE calls_between
            /\ UNCHANGED <<engine_vars, spotify_vars, db_vars>>

RepeatNext == AnalyzeAgain \/ NextText

SpecRepeat == AnalyzerInit /\ [][RepeatNext]_vars

C16_SecondaryFallback ==
    Done =>
        \A op \in {"movie", "video"} :
            LET cs == CallsOf(op)
                sec == emotion_result.secondary_emotions
                last == cs[Len(cs)].got
            IN /\ Len(cs) > 1 <=>
                     /\ ~cs[1].got.raised /\ cs[1].got.items = <<>>
                     /\ sec # <<>>
               /\ \A i \in 2..Len(cs) :
                     /\ cs[i].arg = sec[i - 1]
                     /\ cs[i].limit = IF op = "movie" THEN 3 ELSE 4
               /\ \A i \in 2..(Len(cs) - 1) : cs[i].got.items = <<>>
               /\ (Len(cs) > 1 /\ last.items # <<>>) =>
                     /\ recommendations # None
                     /\ BundleList(op) = last.items

\* the primary movie fetch and the fetch for the first secondary emotion
\* returned empty lists, the fetch for the second one filled the bundle
C16_Witness ==
    /\ Done
    /\ Len(CallsOf("movie")) = 3
    /\ ~CallsOf("movie")[2].got.raised
    /\ CallsOf("movie")[3].got.items # <<>>
    /\ recommendations # None
    /\ recommendations.movies = CallsOf("movie")[3].got.items

\* C17: the global fallback is entered exactly when the primary and the
\* secondary tier left both lists empty, that is when no fetch of either
\* provider returned an item; it makes the keyword search and the trending
\* lookup, and neither is made otherwise.
C17_FallbackIffBothEmpty ==
    Done =>
        LET found == \E i \in DOMAIN provider_calls :
                        /\ provider_calls[i].op \in {"movie", "video"}
                        /\ provider_calls[i].got.items # <<>>
        IN /\ CallsOf("keyword") # <<>> <=> ~found
           /\ CallsOf("trending") # <<>> <=> ~found
           /\ Len(CallsOf("keyword")) <= 1 /\ Len(CallsOf("trending")) <= 1

\* both tiers gave nothing for both content types, secondary emotions
\* included, and the keyword search filled the bundle
C17_Witness ==
    /\ Done
    /\ Len(CallsOf("movie")) >= 2 /\ Len(CallsOf("video")) >= 2
    /\ Len(CallsOf("keyword")) = 1 /\ Len(CallsOf("trending")) = 1
    /\ recommendations # None
    /\ recommendations.movies = CallsOf("keyword")[1].got.items
    /\ recommendations.movies # <<>>

-----------------------------------------------------------------------------
(* Properties of the explanation in the bundle *)

\* the global fallback was entered by the call
FallbackEntered == CallsOf("keyword") # <<>> \/ CallsOf("trending") # <<>>

\* the bundle of the call was assembled by the two blocks alone
OrdinaryBundle == Done /\ recommendations # None /\ ~FallbackEntered

\* C24: the explanation of a bundle assembled without the fallback is the
\* template sentence of the primary emotion, then the confidence qualifier
\* (high wording when confidence > 0.8, moderate when 0.6 < confidence <= 0.8,
\* best guess when confidence <= 0.6), then a clause naming the secondary
\* emotions exactly when there are secondary emotions.
C24_ReasoningComposition ==
    OrdinaryBundle =>
        LET reasoning == recommendations.reasoning
            confidence == emotion_result.confidence
            secondary == emotion_result.secondary_emotions
        IN /\ Len(reasoning) \in {2, 3}
           /\ reasoning[1] = [template |-> emotion_result.primary_emotion]
           /\ reasoning[2] =
                 [confidence_note |->
                     IF confidence > 2400 THEN "highly confident"
                     ELSE IF confidence > 1800 /\ confidence <= 2400
                          THEN "moderately confident"
                          ELSE "best guess"]
           /\ Len(reasoning) = 3 <=> secondary # <<>>
           /\ Len(reasoning) = 3 => reasoning[3] = [hints_of |-> secondary]

\* a confidence of exactly 0.8 with two secondary emotions: the moderate
\* wording and the clause naming both
C24_Witness ==
    /\ OrdinaryBundle
    /\ emotion_result.confidence = 2400
    /\ Len(emotion_result.secondary_emotions) = 2
    /\ recommendations.reasoning[2].confidence_note = "moderately confident"
    /\ Len(recommendations.reasoning) = 3

\* C25: a bundle produced by the global fallback carries the fallback
\* explanation naming the primary emotion and nothing else; a bundle
\* produced without the fallback carries no fallback explanation.
C25_FallbackReasoningOverride ==
    (Done /\ recommendations # None) =>
        LET reasoning == recommendations.reasoning
        IN /\ FallbackEntered =>
                reasoning = <<[fallback_for |-> emotion_result.primary_emotion]>>
           /\ ~FallbackEntered =>
                \A i \in DOMAIN reasoning :
                    "fallback_for" \notin DOMAIN reasoning[i]

\* the fallback filled the bundle of an analysis with secondary emotions and
\* a high confidence, and none of the two shows in the explanation
C25_Witness ==
    /\ Done /\ recommendations # None
    /\ FallbackEntered
    /\ emotion_result.confidence = 2700
    /\ emotion_result.secondary_emotions # <<>>
    /\ Len(recommendations.reasoning) = 1
    /\ recommendations.reasoning[1].fallback_for = emotion_result.primary_emotion

-----------------------------------------------------------------------------
(* Texts of two words with characters between them, for the normalisation  *)
(* of _clean_text and the keywords written as two words.                   *)

\* longest run of characters between the two words
MaxGap == 3

GapTokens == {" ", "\n", "@", "!"}

Gaps == UNION {[1..n -> GapTokens] : n \in 0..MaxGap}

WordPairs == {<<"burned", "out">>, <<"looking", "forward">>, <<"happy", "sad">>}

SeparatedTexts == { <<pair[1]>> \o gap \o <<pair[2]>> : pair \in WordPairs, gap \in Gaps }

\* One call of analyze_emotion(text) for a text of two separated words
AnalyzeSeparatedText ==
    /\ analysis = None
    /\ \E text \in SeparatedTexts :
        \E scan \in SentimentScans \cup {ScanRaises} :
            /\ analyzed_text' = text
            /\ sentiment_scan' = scan
            /\ lexical_scan' = KeywordScan(text, scan)
            /\ analysis' = analyze_emotion(text, scan)
            /\ UNCHANGED <<earlier, calls_between>>
            /\ UNCHANGED <<engine_vars, spotify_vars, db_vars>>

SeparatedNext == AnalyzeSeparatedText \/ NextText

SpecSeparated == AnalyzerInit /\ [][SeparatedNext]_vars

\* the characters between the first and the last token of the text
Gap(text) == SubSeq(text, 2, Len(text) - 1)

\* no two whitespace characters next to each other
NoWhitespaceRun(text) ==
    \A i \in 1..(Len(text) - 1) :
        ~(text[i] \in Whitespace /\ text[i + 1] \in Whitespace)

\* C26: the normalised text of _clean_text holds no run of two or more
\* whitespace characters, also where a stripped character stood between two
\* spaces; so a keyword of two words is counted when whitespace and stripped
\* characters only stand between its words.
C26_NormalizationCollapsesWhitespace ==
    Analyzed =>
        /\ NoWhitespaceRun(_clean_text(analyzed_text))
        /\ \A e \in EmotionSet :
             \A k \in DOMAIN emotion_keywords[e] :
                LET keyword == emotion_keywords[e][k]
                IN ( /\ Scored
                     /\ Len(keyword) = 3
                     /\ analyzed_text[1] = keyword[1]
                     /\ analyzed_text[Len(analyzed_text)] = keyword[3]
                     /\ \A i \in DOMAIN Gap(analyzed_text) :
                          Gap(analyzed_text)[i] \in Whitespace \cup SpecialCharacters
                     /\ \E i \in DOMAIN Gap(analyzed_text) :
                          Gap(analyzed_text)[i] \in Whitespace )
                   => e \in DOMAIN Lexical

-----------------------------------------------------------------------------
(* The movie provider without an API key *)

\* emotion strings given to the provider: the ten labels, the neutral label
\* and one that is no label
EmotionStrings == EmotionSet \cup {"neutral", "other"}

\* C28: without a movie API key, MovieRecommender.get_recommendations
\* returns a non-empty curated list for every emotion string and every limit
\* of 1 or more, the joy list for an emotion without a list of its own; so
\* the engine makes one movie fetch only (no secondary tier), does not enter
\* the global fallback and returns a bundle, whatever the video provider
\* does.  (The provider's answers do not depend on the state: they are
\* examined in the states between two calls.)
C28_CuratedWithoutKey ==
    /\ ~Done => \A emotion \in EmotionStrings, limit \in 1..MaxItems :
          LET movies == Movie_get_recommendations(FALSE, emotion, limit, <<>>)
          IN /\ movies # <<>>
             /\ Len(movies) <= limit
             /\ movies = Take(IF emotion \in DOMAIN curated_movies
                              THEN curated_movies[emotion]
                              ELSE curated_movies["joy"], limit)
    /\ (Done /\ ~movie_api_key) =>
          /\ Len(CallsOf("movie")) = 1
          /\ CallsOf("movie")[1].arg = emotion_result.primary_emotion
          /\ CallsOf("movie")[1].got.items # <<>>
          /\ CallsOf("keyword") = <<>> /\ CallsOf("trending") = <<>>
          /\ recommendations # None
          /\ recommendations.movies = CallsOf("movie")[1].got.items

\* no movie key, an emotion without a curated list and secondary emotions,
\* and a video provider that fails: the bundle holds the joy list and no
\* videos
C28_Witness ==
    /\ Done /\ ~movie_api_key
    /\ emotion_result.primary_emotion = "surprise"
    /\ emotion_result.secondary_emotions # <<>>
    /\ CallsOf("video")[1].got.raised
    /\ recommendations # None
    /\ recommendations.movies = curated_movies["joy"]
    /\ recommendations.youtube_videos = <<>>

-----------------------------------------------------------------------------
(***************************************************************************)
(* database.py: the users and emotion_history tables, and the calls        *)
(* get_or_create_user and save_emotion_analysis made by several callers,   *)
(* each on a connection of its own (get_connection opens one per "with").  *)
(* A step is one exchange with the server; the server runs the statements  *)
(* of the callers one at a time, and a transaction reads committed rows    *)
(* only (PostgreSQL's READ COMMITTED).  The columns created_at and         *)
(* last_active and the analysis columns of emotion_history are left out.   *)
(***************************************************************************)

Sessions == {"s1", "s2"}

\* highest id the sequences give in the model
MaxUserId == 3

MaxHistoryId == 2

\* "return 1  # Return default user ID"
DefaultUserId == 1

\* a committed users row of the session
Registered(session_id) == \E u \in users : u.session_id = session_id

\* get_or_create_user returns v: to its caller, or into save_emotion_analysis
\* (line 114)
UserReturned(call, v) ==
    IF call.op = "save_emotion_analysis"
    THEN [call EXCEPT !.pc = "history", !.user_id = v]
    ELSE [call EXCEPT !.pc = "returned", !.user_id = v, !.returned = v]

\* the except block of get_or_create_user after an operation of the
\* connection failed (psycopg2.Error)
UserFailed(call) == UserReturned([call EXCEPT !.failed = TRUE], DefaultUserId)

\* the except block after the INSERT broke the UNIQUE constraint of
\* users.session_id
UserConflict(call) ==
    UserReturned([call EXCEPT !.conflict = TRUE], DefaultUserId)

\* A caller enters get_or_create_user(session_id), directly or as the first
\* statement of save_emotion_analysis(session_id, ...)
BeginCall(c) ==
    /\ db_call[c].pc \in {"idle", "returned"}
    /\ \E op \in {"get_or_create_user", "save_emotion_analysis"},
          session_id \in Sessions :
          db_call' = [db_call EXCEPT ![c] =
              [IdleCall EXCEPT !.op = op, !.pc = "select",
                               !.session_id = session_id,
                               !.fresh = ~Registered(session_id)]]
    /\ UNCHANGED <<users, users_id_seq, emotion_history, emotion_history_id_seq>>
    /\ UNCHANGED <<engine_vars, spotify_vars, analyzer_vars>>

\* get_connection and "SELECT id FROM users WHERE session_id = %s"
SelectUser(c) ==
    LET call == db_call[c]
    IN /\ call.pc = "select"
       /\ \E fails \in BOOLEAN :
            db_call' = [db_call EXCEPT ![c] =
                IF fails THEN UserFailed(call)
                ELSE IF Registered(call.session_id)
                THEN [call EXCEPT !.pc = "update",
                        !.result = (CHOOSE u \in users :
                                       u.session_id = call.session_id).id]
                ELSE [call EXCEPT !.pc = "insert"]]
       /\ UNCHANGED <<users, users_id_seq, emotion_history, emotion_history_id_seq>>
       /\ UNCHANGED <<engine_vars, spotify_vars, analyzer_vars>>

\* "UPDATE users SET last_active ...", conn.commit() and "return result[0]"
UpdateUser(c) ==
    LET call == db_call[c]
    IN /\ call.pc = "update"
       /\ \E fails \in BOOLEAN :
            db_call' = [db_call EXCEPT ![c] =
                IF fails THEN UserFailed(call)
                ELSE UserReturned(call, call.result)]
       /\ UNCHANGED <<users, users_id_seq, emotion_history, emotion_history_id_seq>>
       /\ UNCHANGED <<engine_vars, spotify_vars, analyzer_vars>>

\* "INSERT INTO users (session_id) VALUES (%s) RETURNING id".  The server
\* takes the next value of the sequence, then checks the UNIQUE constraint:
\* the statement waits while another transaction holds an uncommitted row of
\* the same session_id, and fails when a committed one exists.
InsertUser(c) ==
    LET call == db_call[c]
    IN /\ call.pc = "insert"
       /\ \/ /\ db_call' = [db_call EXCEPT ![c] = UserFailed(call)]
             /\ UNCHANGED users_id_seq
          \/ /\ \A d \in Callers \ {c} :
                   ~(db_call[d].pc = "commit"
                       /\ db_call[d].session_id = call.session_id)
             /\ users_id_seq < MaxUserId
             /\ users_id_seq' = users_id_seq + 1
             /\ db_call' = [db_call EXCEPT ![c] =
                   IF Registered(call.session_id) THEN UserConflict(call)
                   ELSE [call EXCEPT !.pc = "commit",
                                     !.inserted = users_id_seq + 1]]
       /\ UNCHANGED <<users, emotion_history, emotion_history_id_seq>>
       /\ UNCHANGED <<engine_vars, spotify_vars, analyzer_vars>>

\* conn.commit() and "return user_id" after the INSERT
CommitUser(c) ==
    LET call == db_call[c]
    IN /\ call.pc = "commit"
       /\ \/ /\ db_call' = [db_call EXCEPT ![c] = UserFailed(call)]
             /\ UNCHANGED users
          \/ /\ users' = users \cup {[id |-> call.inserted,
                                      session_id |-> call.session_id]}
             /\ db_call' = [db_call EXCEPT ![c] =
                                UserReturned(call, call.inserted)]
       /\ UNCHANGED <<users_id_seq, emotion_history, emotion_history_id_seq>>
       /\ UNCHANGED <<engine_vars, spotify_vars, analyzer_vars>>

\* the rest of save_emotion_analysis: "if not user_id: return None", then
\* get_connection, "INSERT INTO emotion_history ... RETURNING id" and
\* conn.commit().  user_id REFERENCES users(id): the INSERT fails when no
\* users row has that id.
InsertHistory(c) ==
    LET call == db_call[c]
        done(id) == [call EXCEPT !.pc = "returned", !.returned = id]
    IN /\ call.pc = "history"
       /\ \/ /\ db_call' = [db_call EXCEPT ![c] = done(NoRow)]
             /\ UNCHANGED <<emotion_history, emotion_history_id_seq>>
          \/ /\ call.user_id # NoRow
             /\ emotion_history_id_seq < MaxHistoryId
             /\ emotion_history_id_seq' = emotion_history_id_seq + 1
             /\ IF \E u \in users : u.id = call.user_id
                THEN /\ emotion_history' = emotion_history \cup
                            {[id |-> emotion_history_id_seq + 1,
                              user_id |-> call.user_id,
                              session_id |-> call.session_id]}
                     /\ db_call' = [db_call EXCEPT ![c] =
                                        done(emotion_history_id_seq + 1)]
                ELSE /\ UNCHANGED emotion_history
                     /\ db_call' = [db_call EXCEPT ![c] = done(NoRow)]
       /\ UNCHANGED <<users, users_id_seq>>
       /\ UNCHANGED <<engine_vars, spotify_vars, analyzer_vars>>

\* A fresh DatabaseManager on empty tables (init_database has created them)
DatabaseInit ==
    /\ users = {}
    /\ users_id_seq = 0
    /\ emotion_history = {}
    /\ emotion_history_id_seq = 0
    /\ db_call = [c \in Callers |-> IdleCall]
    /\ movie_api_key = FALSE
    /\ youtube_api_key = FALSE
    /\ emotion_result = None
    /\ provider_behaviour = None
    /\ provider_calls = <<>>
    /\ recommendations = None
    /\ engine_raised = FALSE
    /\ spotify_credentials = FALSE
    /\ spotify_access_token = None
    /\ token_requests = 0
    /\ valid_tokens = {}
    /\ last_search = None
    /\ analyzed_text = <<>>
    /\ sentiment_scan = None
    /\ lexical_scan = None
    /\ analysis = None
    /\ earlier = None
    /\ calls_between = 0

DatabaseNext ==
    \E c \in Callers :
        \/ BeginCall(c)
        \/ SelectUser(c)
        \/ UpdateUser(c)
        \/ InsertUser(c)
        \/ CommitUser(c)
        \/ InsertHistory(c)

SpecDatabase == DatabaseInit /\ [][DatabaseNext]_vars

-----------------------------------------------------------------------------
(* Properties of the database manager *)

\* C29: every emotion_history row written for a session carries the
\* user_id of the users row of that session, after any sequence of calls,
\* also when an operation inside get_or_create_user failed; no row is
\* attributed to the user of another session.
C29_HistoryAttribution ==
    \A h \in emotion_history :
        \E u \in users : u.session_id = h.session_id /\ u.id = h.user_id

\* the callers whose get_or_create_user call for the session has returned,
\* entered while the session was not registered and run without a failure of
\* the connection
ReturnedFresh(session_id) ==
    { c \in Callers : /\ db_call[c].session_id = session_id
                      /\ db_call[c].fresh
                      /\ ~db_call[c].failed
                      /\ db_call[c].pc \in {"history", "returned"} }

\* C30: when concurrent get_or_create_user calls with the same session_id,
\* not registered yet, have returned, at most one users row exists for the
\* session_id and every call has returned the id of that row.
C30_ConcurrentCreation ==
    \A s \in Sessions :
        ReturnedFresh(s) = Callers =>
            /\ Cardinality({u \in users : u.session_id = s}) <= 1
            /\ \A c \in Callers :
                  \E u \in users : u.session_id = s /\ u.id = db_call[c].user_id

====
